---------------------------- MODULE Spec2Model ----------------------------
(***************************************************************************)
(* The serving notebook (src/unnamed/part_000) as a state machine: its     *)
(* code cells run top to bottom, one action per cell.  The Vertex AI SDK   *)
(* and the deployed endpoints are the environment: every remote call       *)
(* either returns a value drawn from a small set or fails.  A cell that    *)
(* raises stops the run (pc = "failed"); nothing below it is executed.     *)
(*                                                                         *)
(* The data preparation notebook (src/data-prep.ipynb) is a second state   *)
(* machine over the same pc, error, calls and printed, with its own names  *)
(* and its own specification: one specification is one run of one          *)
(* notebook in its own kernel.                                             *)
(*                                                                         *)
(* Python names keep their spelling.  A name that is not bound yet holds   *)
(* the placeholder of its type (None, NoResponse, <<>>); pc tells which    *)
(* names are bound.                                                        *)
(***************************************************************************)
EXTENDS Integers, Sequences, FiniteSets, TLC

VARIABLES
    pc,                 \* the next code cell to run, or "done" / "failed"
    error,              \* the exception that stopped the run, None if none
    list_tuned_models,  \* part_000:135
    tuned_model_select, \* part_000:162
    deployed_model,     \* part_000:182
    INSTRUCTION,        \* part_000:277
    QUESTION,           \* part_000:284
    PROMPT,             \* part_000:185 and part_000:287
    response,           \* part_000:205
    output,             \* part_000:231 and part_000:298
    final_output,       \* part_000:254
    final_response,     \* part_000:295
    blocked,            \* part_000:321
    safety_attributes,  \* part_000:327
    citation,           \* part_000:350
    calls,              \* the remote calls issued so far, in order
    printed,            \* what the cells have printed so far, in order
    outstanding,        \* the remote requests issued and not yet answered
    stack_overflow_df,  \* data-prep.ipynb:159, 188, 231, 261
    train,              \* data-prep.ipynb:285
    evaluation,         \* data-prep.ipynb:285
    date,               \* data-prep.ipynb:311
    tune_jsonl,         \* data-prep.ipynb:331
    files,              \* the files written so far: name -> content
    MODEL_NAME,         \* supervised-tuning-pipe.ipynb:66
    pipeline_arguments, \* supervised-tuning-pipe.ipynb:144, part_001:282
    template_path,      \* supervised-tuning-pipe.ipynb:174
    job,                \* supervised-tuning-pipe.ipynb:206, part_001:327
    hello_task,         \* part_001:133
    how_task,           \* part_001:182
    execution           \* the run of a submitted job in the pipeline service

vars == << pc, error, list_tuned_models, tuned_model_select, deployed_model,
           INSTRUCTION, QUESTION, PROMPT, response, output, final_output,
           final_response, blocked, safety_attributes, citation, calls,
           printed, outstanding, stack_overflow_df, train, evaluation, date,
           tune_jsonl, files, MODEL_NAME, pipeline_arguments, template_path,
           job, hello_task, how_task, execution >>

\* the names of the data preparation notebook
dataPrepNames == << stack_overflow_df, train, evaluation, date, tune_jsonl, files >>

\* the names of the two pipeline notebooks, date and files apart
pipelineNames ==
    << MODEL_NAME, pipeline_arguments, template_path, job, hello_task, how_task >>

\* every name that is not the serving notebook's: no cell of the serving
\* notebook touches them
notServing == << outstanding, dataPrepNames, pipelineNames, execution >>

\* the names of the serving notebook
servingNames ==
    << list_tuned_models, tuned_model_select, deployed_model, INSTRUCTION,
       QUESTION, PROMPT, response, output, final_output, final_response,
       blocked, safety_attributes, citation >>

-----------------------------------------------------------------------------
(* Bounds of the model *)

\* the longest registry list_tuned_model_names() returns
MaxEndpoints == 3

\* the longest instruction and question text the render is tried on
MaxTextLen == 2

-----------------------------------------------------------------------------
(* Values *)

None == "None"

\* the identifiers of the tuned models deployed in the project
Endpoints == {"tuned-a", "tuned-b", "tuned-c"}

\* the base model loaded in part_000:115, never an element of the registry
PretrainedModel == "text-bison@001"

RECURSIVE SeqsUpTo(_, _)
SeqsUpTo(S, n) ==
    IF n = 0 THEN {<<>>}
    ELSE LET shorter == SeqsUpTo(S, n - 1)
         IN  shorter \cup {Append(s, x) : s \in {t \in shorter : Len(t) = n - 1}, x \in S}

\* what list_tuned_model_names() can return: any sequence of identifiers,
\* the empty one included
Registries == SeqsUpTo(Endpoints, MaxEndpoints)

Range(seq) == {seq[i] : i \in 1..Len(seq)}

\* the named safety scores of a prediction, in tenths (1 is 0.1, 9 is 0.9)
SafetyScores ==
    { [ probability |-> 1, severity |-> 1 ],
      [ probability |-> 9, severity |-> 9 ] }

\* one prediction as the service returns it: the dictionary the cells read
\* with ["content"], ['safetyAttributes'] and ['citationMetadata']
Predictions ==
    [ content          : {"answer-1", "answer-2"},
      safetyAttributes : [ blocked : BOOLEAN, scores : SafetyScores ],
      citationMetadata : [ citations : {<<>>, <<"source-1">>} ] ]

NoPrediction == [ unbound |-> TRUE ]
NoResponse == [ unbound |-> TRUE ]

\* the response object predict() returns for a prediction p:
\* _prediction_response[0] is the list of predictions, of one element
MakeResponse(p) == [ prediction_response |-> << <<p>> >> ]

\* Python's seq[0]
Item0(seq) == seq[1]

-----------------------------------------------------------------------------
(* The environment: the calls into the SDK and what they can do *)

Returned(v) == [ raised |-> None, value |-> v ]
Raised(exc, v) == [ raised |-> exc, value |-> v ]

\* model.list_tuned_model_names(): a registry, or the remote call fails
list_tuned_model_names ==
    {Returned(r) : r \in Registries} \cup {Raised("UpstreamError", <<>>)}

\* random.choice with the index drawn below len(seq) - 1: the last element
\* is never chosen
random_choice_skips_last(seq) ==
    IF Len(seq) = 0
    THEN {Raised("IndexError", None)}
    ELSE {Returned(seq[i]) : i \in 1..(Len(seq) - 1)}

\* random.choice that returns None for an empty sequence instead of raising
random_choice_none_on_empty(seq) ==
    IF Len(seq) = 0
    THEN {Returned(None)}
    ELSE {Returned(seq[i]) : i \in 1..Len(seq)}

\* random.choice(seq): an element at any index of seq; IndexError when seq
\* is empty
random_choice(seq) ==
    IF Len(seq) = 0
    THEN {Raised("IndexError", None)}
    ELSE {Returned(seq[i]) : i \in 1..Len(seq)}

\* TextGenerationModel.get_tuned_model(name): the endpoint of that name, or
\* the remote call fails
get_tuned_model(name) ==
    {Returned(name), Raised("UpstreamError", None)}

\* deployed_model.predict(prompt): a response holding one prediction, or the
\* remote call fails
predict(endpoint, prompt) ==
    {Returned(MakeResponse(p)) : p \in Predictions}
        \cup {Raised("UpstreamError", NoResponse)}

\* the record of one remote call in calls: the operation, the endpoint or
\* model it was sent to, the prompt sent, and what the service answered
Call(op, target, prompt, o) ==
    [ op |-> op, target |-> target, prompt |-> prompt, raised |-> o.raised,
      produced |-> o.value ]

\* a read of "content" that withholds the content of a blocked prediction
Get_withholds_blocked(d, key) ==
    IF key = "content" /\ d.safetyAttributes.blocked THEN "" ELSE d[key]

\* a read of "blocked" that also blocks on a probability score of 0.5 or more
Get_thresholded(d, key) ==
    IF key = "blocked" THEN d.blocked \/ d.scores.probability >= 5 ELSE d[key]

\* d[key] on a dictionary of the response
Get(d, key) == d[key]

\* a cell that catches the exception and runs again
OnRaise_retry(cell) == cell

\* a cell that raises is not guarded by try/except: the run stops there
OnRaise(cell) == "failed"

-----------------------------------------------------------------------------
(* The texts of the notebooks *)

\* part_000:185
PROMPT_1 == "How can I load a CSV file using Pandas?"

\* part_000:277-281: every line but the last ends in a backslash, which
\* joins it to the next with nothing in between
INSTRUCTION_TEXT ==
    "Please answer the following Stackoverflow question on Python."
    \o "Answer it like you are a developer answering Stackoverflow questions."
    \o "Question:\n"

\* part_000:284
QUESTION_TEXT ==
    "How can I store my TensorFlow checkpoint on Google Cloud Storage? Python example?"

\* data-prep.ipynb:253-258: the first line ends in a space and a backslash
INSTRUCTION_TEMPLATE ==
    "Please answer the following Stackoverflow question on Python. "
    \o "Answer it like you are a developer answering Stackoverflow questions.\n"
    \o "\n"
    \o "Stackoverflow question:\n"

\* data-prep.ipynb:261: the training text of a question
input_text_instruct(input_text) == INSTRUCTION_TEMPLATE \o " " \o input_text

\* the render without the space between instruction and question
Render_no_separator(instruction, question) ==
    "\n" \o instruction \o question \o "\n"

\* part_000:287-289: the f-string opens with a line break, holds the
\* instruction, a space and the question, and closes after a line break
Render(instruction, question) ==
    "\n" \o instruction \o " " \o question \o "\n"

-----------------------------------------------------------------------------
(* The cells of the serving notebook *)

\* the second request sent to another endpoint of the registry when there
\* is one
Receiver_reselected(cell) ==
    IF cell = "cell9" /\ Range(list_tuned_models) \ {deployed_model} # {}
    THEN CHOOSE e \in Range(list_tuned_models) \ {deployed_model} : TRUE
    ELSE deployed_model

\* the endpoint whose predict a cell calls: both cells call
\* deployed_model.predict, the object loaded once in part_000:182
Receiver(cell) == deployed_model

NoJob == [ unbound |-> TRUE ]
NoTask == [ unbound |-> TRUE ]
NoArguments == [ unbound |-> TRUE ]
NoExecution == [ unbound |-> TRUE ]

\* the pipeline notebooks' names before their first cell
PipelineUnbound ==
    /\ MODEL_NAME = None
    /\ pipeline_arguments = NoArguments
    /\ template_path = None
    /\ job = NoJob
    /\ hello_task = NoTask
    /\ how_task = NoTask
    /\ execution = NoExecution

\* the data preparation notebook's names before its first cell
DataPrepUnbound ==
    /\ stack_overflow_df = <<>>
    /\ train = <<>>
    /\ evaluation = <<>>
    /\ date = None
    /\ tune_jsonl = None
    /\ files = <<>>

Init ==
    /\ pc = "cell1"
    /\ error = None
    /\ outstanding = <<>>
    /\ DataPrepUnbound
    /\ PipelineUnbound
    /\ list_tuned_models = <<>>
    /\ tuned_model_select = None
    /\ deployed_model = None
    /\ INSTRUCTION = None
    /\ QUESTION = None
    /\ PROMPT = None
    /\ response = NoResponse
    /\ output = None
    /\ final_output = None
    /\ final_response = NoResponse
    /\ blocked = None
    /\ safety_attributes = NoPrediction
    /\ citation = <<>>
    /\ calls = <<>>
    /\ printed = <<>>

\* one entry of printed: the expression a print or pprint call was given
\* and its value
Shown(name, value) == [ name |-> name, value |-> value ]

\* part_000:79-86: credentials, PROJECT_ID, REGION
LoadCredentials ==
    /\ pc = "cell1"
    /\ pc' = "cell2"
    /\ UNCHANGED << error, list_tuned_models, tuned_model_select,
                    deployed_model, INSTRUCTION, QUESTION, PROMPT, response,
                    output, final_output, final_response, blocked,
                    safety_attributes, citation, calls, printed >>
    /\ UNCHANGED notServing

\* part_000:105-115: vertexai.init, from_pretrained
InitVertexAI ==
    /\ pc = "cell2"
    /\ pc' = "cell3"
    /\ UNCHANGED << error, list_tuned_models, tuned_model_select,
                    deployed_model, INSTRUCTION, QUESTION, PROMPT, response,
                    output, final_output, final_response, blocked,
                    safety_attributes, citation, calls, printed >>
    /\ UNCHANGED notServing

\* part_000:134-139
ListDeployedModels ==
    /\ pc = "cell3"
    /\ \E o \in list_tuned_model_names :
          /\ calls' = Append(calls,
                  Call("list_tuned_model_names", PretrainedModel, None, o))
          /\ IF o.raised # None
             THEN /\ pc' = OnRaise("cell3")
                  /\ error' = o.raised
                  /\ UNCHANGED << list_tuned_models, printed >>
             ELSE /\ list_tuned_models' = o.value
                  /\ printed' = printed \o
                        [ i \in 1..Len(o.value) |-> Shown("i", o.value[i]) ]
                  /\ pc' = "cell4"
                  /\ UNCHANGED error
    /\ UNCHANGED << tuned_model_select, deployed_model, INSTRUCTION, QUESTION,
                    PROMPT, response, output, final_output, final_response,
                    blocked, safety_attributes, citation >>
    /\ UNCHANGED notServing

\* a selection that takes the chosen identifier out of the registry
SelectModel_pops ==
    /\ pc = "cell4"
    /\ \E o \in random_choice(list_tuned_models) :
          IF o.raised # None
          THEN /\ pc' = OnRaise("cell4")
               /\ error' = o.raised
               /\ UNCHANGED << tuned_model_select, list_tuned_models >>
          ELSE /\ tuned_model_select' = o.value
               /\ list_tuned_models' =
                     SelectSeq(list_tuned_models, LAMBDA e : e # o.value)
               /\ pc' = "cell5"
               /\ UNCHANGED error
    /\ UNCHANGED << deployed_model, INSTRUCTION, QUESTION,
                    PROMPT, response, output, final_output, final_response,
                    blocked, safety_attributes, citation, calls, printed >>
    /\ UNCHANGED notServing

\* part_000:158-162
SelectModel ==
    /\ pc = "cell4"
    /\ \E o \in random_choice(list_tuned_models) :
          IF o.raised # None
          THEN /\ pc' = OnRaise("cell4")
               /\ error' = o.raised
               /\ UNCHANGED tuned_model_select
          ELSE /\ tuned_model_select' = o.value
               /\ pc' = "cell5"
               /\ UNCHANGED error
    /\ UNCHANGED << list_tuned_models, deployed_model, INSTRUCTION, QUESTION,
                    PROMPT, response, output, final_output, final_response,
                    blocked, safety_attributes, citation, calls, printed >>
    /\ UNCHANGED notServing

\* part_000:181-185
LoadSelectedModel ==
    /\ pc = "cell5"
    /\ \E o \in get_tuned_model(tuned_model_select) :
          /\ calls' = Append(calls,
                  Call("get_tuned_model", tuned_model_select, None, o))
          /\ IF o.raised # None
             THEN /\ pc' = OnRaise("cell5")
                  /\ error' = o.raised
                  /\ UNCHANGED << deployed_model, PROMPT >>
             ELSE /\ deployed_model' = o.value
                  /\ PROMPT' = PROMPT_1
                  /\ pc' = "cell6"
                  /\ UNCHANGED error
    /\ UNCHANGED << list_tuned_models, tuned_model_select, INSTRUCTION,
                    QUESTION, response, output, final_output, final_response,
                    blocked, safety_attributes, citation, printed >>
    /\ UNCHANGED notServing

\* part_000:204-208
SendPrompt ==
    /\ pc = "cell6"
    /\ \E o \in predict(Receiver("cell6"), PROMPT) :
          /\ calls' = Append(calls, Call("predict", Receiver("cell6"), PROMPT, o))
          /\ IF o.raised # None
             THEN /\ pc' = OnRaise("cell6")
                  /\ error' = o.raised
                  /\ UNCHANGED << response, printed >>
             ELSE /\ response' = o.value
                  /\ printed' = Append(printed, Shown("response", o.value))
                  /\ pc' = "cell7"
                  /\ UNCHANGED error
    /\ UNCHANGED << list_tuned_models, tuned_model_select, deployed_model,
                    INSTRUCTION, QUESTION, PROMPT, output, final_output,
                    final_response, blocked, safety_attributes, citation >>
    /\ UNCHANGED notServing

\* part_000:227-234
ExtractFirstObject ==
    /\ pc = "cell7"
    /\ output' = Item0(response.prediction_response)
    /\ printed' = Append(printed, Shown("output", output'))
    /\ pc' = "cell8"
    /\ UNCHANGED << error, list_tuned_models, tuned_model_select,
                    deployed_model, INSTRUCTION, QUESTION, PROMPT, response,
                    final_output, final_response, blocked, safety_attributes,
                    citation, calls >>
    /\ UNCHANGED notServing

\* part_000:253-257
ExtractContent ==
    /\ pc = "cell8"
    /\ final_output' = Get(Item0(Item0(response.prediction_response)), "content")
    /\ printed' = Append(printed, Shown("final_output", final_output'))
    /\ pc' = "cell9"
    /\ UNCHANGED << error, list_tuned_models, tuned_model_select,
                    deployed_model, INSTRUCTION, QUESTION, PROMPT, response,
                    output, final_response, blocked, safety_attributes,
                    citation, calls >>
    /\ UNCHANGED notServing

\* part_000:276-301
PromptWithInstruction ==
    /\ pc = "cell9"
    /\ INSTRUCTION' = INSTRUCTION_TEXT
    /\ QUESTION' = QUESTION_TEXT
    /\ PROMPT' = Render(INSTRUCTION', QUESTION')
    /\ \E o \in predict(Receiver("cell9"), PROMPT') :
          /\ calls' = Append(calls, Call("predict", Receiver("cell9"), PROMPT', o))
          /\ IF o.raised # None
             THEN /\ pc' = OnRaise("cell9")
                  /\ error' = o.raised
                  /\ printed' = Append(printed, Shown("PROMPT", PROMPT'))
                  /\ UNCHANGED << final_response, output >>
             ELSE /\ final_response' = o.value
                  /\ output' = Get(Item0(Item0(final_response'.prediction_response)),
                                    "content")
                  /\ printed' = printed \o
                        << Shown("PROMPT", PROMPT'), Shown("output", output') >>
                  /\ pc' = "cell10"
                  /\ UNCHANGED error
    /\ UNCHANGED << list_tuned_models, tuned_model_select, deployed_model,
                    response, final_output, blocked, safety_attributes,
                    citation >>
    /\ UNCHANGED notServing

\* part_000:320-330
CheckSafetyAttributes ==
    /\ pc = "cell10"
    /\ blocked' =
          Get(Get(Item0(Item0(response.prediction_response)), "safetyAttributes"),
              "blocked")
    /\ safety_attributes' =
          Get(Item0(Item0(response.prediction_response)), "safetyAttributes")
    /\ printed' = printed \o
          << Shown("blocked", blocked'),
             Shown("safety_attributes", safety_attributes') >>
    /\ pc' = "cell11"
    /\ UNCHANGED << error, list_tuned_models, tuned_model_select,
                    deployed_model, INSTRUCTION, QUESTION, PROMPT, response,
                    output, final_output, final_response, citation, calls >>
    /\ UNCHANGED notServing

\* part_000:349-353
CheckCitations ==
    /\ pc = "cell11"
    /\ citation' =
          Get(Get(Item0(Item0(response.prediction_response)), "citationMetadata"),
              "citations")
    /\ printed' = Append(printed, Shown("citation", citation'))
    /\ pc' = "done"
    /\ UNCHANGED << error, list_tuned_models, tuned_model_select,
                    deployed_model, INSTRUCTION, QUESTION, PROMPT, response,
                    output, final_output, final_response, blocked,
                    safety_attributes, calls >>
    /\ UNCHANGED notServing

Next ==
    \/ LoadCredentials
    \/ InitVertexAI
    \/ ListDeployedModels
    \/ SelectModel
    \/ LoadSelectedModel
    \/ SendPrompt
    \/ ExtractFirstObject
    \/ ExtractContent
    \/ PromptWithInstruction
    \/ CheckSafetyAttributes
    \/ CheckCitations

Spec == Init /\ [][Next]_vars

-----------------------------------------------------------------------------
(* Dispatch: selection, requests, failures *)

\* the predict calls issued so far, in order
PredictCalls == SelectSeq(calls, LAMBDA c : c.op = "predict")

\* the calls that dispatch a request: loading the selected endpoint and
\* predicting on it
DispatchCalls ==
    SelectSeq(calls, LAMBDA c : c.op \in {"get_tuned_model", "predict"})

\* list_tuned_model_names() has returned, and returned this registry
RegistryListed == Len(calls) >= 1 /\ calls[1].raised = None

\* the endpoint the request of cell 9 is sent to, in the step that sends it
SecondTarget == calls'[Len(calls')].target

\* C1 as stated: each predict call is preceded by its own selection, so the
\* second request of a session can be sent to another endpoint than the
\* first whenever the registry holds two endpoints
C1_SelectionPerRequest ==
    (pc = "cell9" /\ Cardinality(Range(list_tuned_models)) >= 2)
        => ENABLED (PromptWithInstruction /\ SecondTarget # PredictCalls[1].target)

\* C1 amended: the endpoint is selected once per session; every predict
\* call of the session is sent to that one selected endpoint
C1_OneSelectionPerSession ==
    \A i \in 1..Len(PredictCalls) :
        PredictCalls[i].target = tuned_model_select

C1_Witness ==
    /\ Len(PredictCalls) = 2
    /\ Cardinality(Range(list_tuned_models)) >= 2
    /\ PredictCalls[1].target = PredictCalls[2].target

\* C2: the endpoint a request is dispatched to is an identifier of the
\* registry list_tuned_model_names returned, and at the selection every
\* identifier of a non-empty registry can be the one selected
C2_SelectedFromRegistry ==
    /\ \A i \in 1..Len(DispatchCalls) :
           DispatchCalls[i].target \in Range(list_tuned_models)
    /\ pc = "cell4" =>
           \A i \in 1..Len(list_tuned_models) :
               ENABLED (SelectModel /\ tuned_model_select' = list_tuned_models[i])

C2_Witness ==
    /\ Len(PredictCalls) >= 1
    /\ Len(list_tuned_models) >= 2
    /\ PredictCalls[1].target = list_tuned_models[Len(list_tuned_models)]
    /\ PredictCalls[1].target # list_tuned_models[1]

\* the exception random.choice raises for an empty sequence is the
\* dispatcher's EmptyRegistry failure
EmptyRegistry == "IndexError"

\* C3: with an empty registry the dispatch fails with EmptyRegistry, and
\* neither get_tuned_model nor predict is called
C3_EmptyRegistryFails ==
    (RegistryListed /\ list_tuned_models = <<>>)
        => /\ pc \in {"cell4", "failed"}
           /\ pc = "failed" => error = EmptyRegistry
           /\ DispatchCalls = <<>>

C3_Witness ==
    /\ RegistryListed
    /\ list_tuned_models = <<>>
    /\ pc = "failed"
    /\ error = EmptyRegistry

\* C4: a failed predict call ends the request with the error at the
\* caller: it is the last call issued, so predict is not called again for
\* the request and no other endpoint is tried
C4_NoRetryNoFallback ==
    \A i \in 1..Len(calls) :
        (calls[i].op = "predict" /\ calls[i].raised # None)
            => /\ i = Len(calls)
               /\ pc = "failed"
               /\ error = calls[i].raised

C4_Witness ==
    /\ Len(calls) >= 1
    /\ calls[Len(calls)].op = "predict"
    /\ calls[Len(calls)].raised = "UpstreamError"
    /\ Range(list_tuned_models) \ {calls[Len(calls)].target} # {}
    /\ pc = "failed"

\* C5 as stated: on the next call every endpoint of the registry is
\* selectable, whatever was selected before
C5_SelectableOnNextCall ==
    pc = "cell9" =>
        \A e \in Range(list_tuned_models) :
            ENABLED (PromptWithInstruction /\ SecondTarget = e)

\* C5 amended: the session is sticky: after a first prediction, whatever
\* it returned, the next call can go to one endpoint only, the one the
\* first request was sent to; the loaded endpoint never changes
C5_SessionAffinity ==
    /\ pc = "cell9" =>
           \A e \in Endpoints :
               ENABLED (PromptWithInstruction /\ SecondTarget = e)
                   <=> e = PredictCalls[1].target
    /\ Len(PredictCalls) >= 1 => deployed_model = PredictCalls[1].target

C5_Witness ==
    /\ Len(PredictCalls) = 2
    /\ Range(list_tuned_models) = Endpoints
    /\ PredictCalls[1].produced.prediction_response[1][1].safetyAttributes.blocked
    /\ PredictCalls[2].target = PredictCalls[1].target
    /\ PredictCalls[2].raised = None

\* the step is the selection or sends a prediction request
DispatchStep == pc \in {"cell4", "cell6", "cell9"}

\* the step sends a prediction request
PredictStep == pc \in {"cell6", "cell9"}

\* C11 as stated: a step that sends a prediction request changes none of
\* the notebook's names; the remote call is all it does
C11_DispatchChangesNoName ==
    [][PredictStep => UNCHANGED servingNames]_vars

\* C11 amended: the selection and the prediction requests leave the
\* registry as it was listed, and the requests leave the selection and the
\* loaded endpoint alone; a request does bind names of the notebook, the
\* response it got and what is read from it, and the second request
\* replaces PROMPT and output
C11_RegistryFrame ==
    [][ /\ DispatchStep => list_tuned_models' = list_tuned_models
        /\ PredictStep =>
              /\ UNCHANGED << tuned_model_select, deployed_model >>
              /\ UNCHANGED << final_output, blocked, safety_attributes, citation >>
        /\ (pc = "cell6" /\ pc' = "cell7") =>
              /\ response' # response
              /\ UNCHANGED << PROMPT, output, final_response >>
        /\ (pc = "cell9" /\ pc' = "cell10") =>
              /\ PROMPT' # PROMPT
              /\ final_response' # final_response
              /\ output' = final_response'.prediction_response[1][1].content
              /\ UNCHANGED response
      ]_vars

C11_Witness ==
    /\ pc = "done"
    /\ Len(PredictCalls) = 2
    /\ Len(list_tuned_models) >= 2
    /\ list_tuned_models = calls[1].produced
    /\ PROMPT # PredictCalls[1].prompt
    /\ output = final_response.prediction_response[1][1].content

-----------------------------------------------------------------------------
(* Prompt rendering on its own: the f-string of part_000:287-289 applied to *)
(* any instruction and question                                            *)

Alphabet == {"a", " ", "\n"}

RECURSIVE TextsUpTo(_)
TextsUpTo(n) ==
    IF n = 0 THEN {""}
    ELSE LET shorter == TextsUpTo(n - 1)
         IN  shorter \cup {t \o c : t \in {u \in shorter : Len(u) = n - 1},
                                    c \in Alphabet}

Instructions ==
    TextsUpTo(MaxTextLen) \cup {"Answer the question.", INSTRUCTION_TEXT}

Questions ==
    TextsUpTo(MaxTextLen) \cup {"What is 2+2?", QUESTION_TEXT}

RenderInit ==
    /\ pc = "render"
    /\ error = None
    /\ outstanding = <<>>
    /\ DataPrepUnbound
    /\ PipelineUnbound
    /\ list_tuned_models = <<>>
    /\ tuned_model_select = None
    /\ deployed_model = None
    /\ INSTRUCTION \in Instructions
    /\ QUESTION \in Questions
    /\ PROMPT = None
    /\ response = NoResponse
    /\ output = None
    /\ final_output = None
    /\ final_response = NoResponse
    /\ blocked = None
    /\ safety_attributes = NoPrediction
    /\ citation = <<>>
    /\ calls = <<>>
    /\ printed = <<>>

\* part_000:287-292
RenderPrompt ==
    /\ pc = "render"
    /\ PROMPT' = Render(INSTRUCTION, QUESTION)
    /\ printed' = Append(printed, Shown("PROMPT", PROMPT'))
    /\ pc' = "rendered"
    /\ UNCHANGED << error, list_tuned_models, tuned_model_select,
                    deployed_model, INSTRUCTION, QUESTION, response, output,
                    final_output, final_response, blocked, safety_attributes,
                    citation, calls >>
    /\ UNCHANGED notServing

RenderNext == RenderPrompt

RenderSpec == RenderInit /\ [][RenderNext]_vars

-----------------------------------------------------------------------------
(* Prompts *)

\* C7: the prompt sent at serving time for a question is the text the
\* training data holds for it, INSTRUCTION_TEMPLATE + ' ' + question
C7_ServingPromptIsTrainingText ==
    QUESTION # None => PROMPT = input_text_instruct(QUESTION)

\* C8 as stated: the render is the instruction, one space, the question
\* and one newline, with nothing before the instruction
C8_RenderAsStated ==
    pc = "rendered" => PROMPT = INSTRUCTION \o " " \o QUESTION \o "\n"

\* C8 amended: the render is one newline, the instruction, one space, the
\* question and one newline; "Answer the question." and "What is 2+2?"
\* give "\nAnswer the question. What is 2+2?\n"
C8_RenderShape ==
    pc = "rendered" =>
        /\ PROMPT = "\n" \o INSTRUCTION \o " " \o QUESTION \o "\n"
        /\ Len(PROMPT) = Len(INSTRUCTION) + Len(QUESTION) + 3
        /\ (INSTRUCTION = "Answer the question." /\ QUESTION = "What is 2+2?")
               => PROMPT = "\nAnswer the question. What is 2+2?\n"

C8_Witness ==
    /\ pc = "rendered"
    /\ INSTRUCTION = "Answer the question."
    /\ QUESTION = "What is 2+2?"
    /\ PROMPT = "\nAnswer the question. What is 2+2?\n"

-----------------------------------------------------------------------------
(* Prediction results *)

\* the prediction the service produced for the k-th predict call
Produced(k) == PredictCalls[k].produced.prediction_response[1][1]

\* C9: what the caller holds and reads of a request's result is what the
\* predict call produced for that request: the response objects, the
\* contents, the blocked flag, the safety scores and the citations
C9_ResultUnchanged ==
    /\ pc \in {"cell7", "cell8", "cell9", "cell10", "cell11", "done"}
          => response = PredictCalls[1].produced
    /\ pc = "cell8" => output = << Produced(1) >>
    /\ final_output # None => final_output = Produced(1).content
    /\ pc \in {"cell10", "cell11", "done"}
          => /\ final_response = PredictCalls[2].produced
             /\ output = Produced(2).content
    /\ pc \in {"cell11", "done"}
          => /\ blocked = Produced(1).safetyAttributes.blocked
             /\ safety_attributes.scores = Produced(1).safetyAttributes.scores
    /\ pc = "done" => citation = Produced(1).citationMetadata.citations

C9_Witness ==
    /\ pc = "done"
    /\ Produced(1).content # Produced(2).content
    /\ Produced(1).safetyAttributes.blocked
    /\ final_output = Produced(1).content
    /\ output = Produced(2).content
    /\ citation = << "source-1" >>

\* the Prediction Result the accessors of cells 10 and 11 read
Result == response.prediction_response[1][1]

\* C10: the blocked flag read is the result's flag whatever the scores
\* are, the citations read are the result's sequence as it is, and the
\* reads leave the result as the service produced it
C10_AccessorsPassThrough ==
    /\ pc \in {"cell11", "done"}
          => /\ blocked = Result.safetyAttributes.blocked
             /\ safety_attributes = Result.safetyAttributes
             /\ response = PredictCalls[1].produced
    /\ pc = "done"
          => /\ citation = Result.citationMetadata.citations
             /\ response = PredictCalls[1].produced

C10_Witness ==
    /\ pc = "done"
    /\ blocked = FALSE
    /\ Result.safetyAttributes.scores.probability = 9
    /\ Result.safetyAttributes.scores.severity = 9
    /\ citation = <<>>
    /\ Result.content = final_output

-----------------------------------------------------------------------------
(* The data preparation notebook (src/data-prep.ipynb): the warehouse *)

\* the questions of the warehouse that the join query returns: as many as
\* this, at most
MaxQuestions == 5

\* the texts of titles, question bodies and answer bodies: with quotes,
\* line breaks, backslashes and slashes in them
Titles == << "csv?", "a \"b\"", "x" >>
Bodies == << "\nimport os", " C:\\t/u", "" >>
AnswerBodies == << "use\n\"pd\"", "\\n", "ok" >>

Pick(texts, i) == texts[((i - 1) % Len(texts)) + 1]

\* a row of posts_questions; accepted_answer_id is the set holding the id,
\* or the empty set for NULL; creation_date is year, month and day
Question(id, title, body, tags, accepted, created) ==
    [ id |-> id, title |-> title, body |-> body, tags |-> tags,
      accepted_answer_id |-> accepted, creation_date |-> created ]

\* a row of posts_answers
Answer(id, body, created) ==
    [ id |-> id, body |-> body, creation_date |-> created ]

\* the rows posts_questions can hold.  The first two are an IronPython
\* question and a question of 2015 whose accepted answer is of 2020-01-01;
\* the last three are a Java question, a question without accepted answer
\* and a question whose accepted answer is of 2019
QuestionPool ==
    { Question(i, Pick(Titles, i), Pick(Bodies, i),
               IF i = 1 THEN "ironpython|.net" ELSE "python|pandas",
               {100 + i},
               IF i = 2 THEN 20150610 ELSE 20210305) : i \in 1..MaxQuestions }
      \cup { Question(93, "jar", " path", "java", {193}, 20210305),
             Question(94, "open", "", "python", {}, 20210305),
             Question(95, "old", " api", "python", {195}, 20190101) }

\* the rows of posts_answers
posts_answers ==
    { Answer(100 + i, Pick(AnswerBodies, i),
             IF i = 2 THEN 20200101 ELSE 20210306) : i \in 1..MaxQuestions }
      \cup { Answer(193, "mvn", 20210306),
             Answer(195, "n/a", 20191231),
             Answer(196, "stray", 20220101) }

\* data-prep.ipynb:225-226
LIMIT == 10000

\* REGEXP_CONTAINS(value, regexp) for a regexp without operators: value
\* contains it
REGEXP_CONTAINS(value, regexp) ==
    \E i \in 1..(Len(value) - Len(regexp) + 1) :
        SubSeq(value, i, i + Len(regexp) - 1) = regexp

CONCAT(a, b) == a \o b

\* data-prep.ipynb:217-224: the pairs of question and answer the join keeps
Joined(questions, answers) ==
    { p \in questions \X answers :
        /\ p[2].id \in p[1].accepted_answer_id
        /\ p[1].accepted_answer_id # {}
        /\ REGEXP_CONTAINS(p[1].tags, "python")
        /\ p[2].creation_date >= 20200101 }

\* a SELECT whose output_text is the body of the question
Selected_question_body(p) ==
    [ input_text |-> CONCAT(p[1].title, p[1].body), output_text |-> p[1].body ]

\* data-prep.ipynb:212-214: the columns selected of one pair
Selected(p) ==
    [ input_text |-> CONCAT(p[1].title, p[1].body), output_text |-> p[2].body ]

Min(a, b) == IF a <= b THEN a ELSE b

\* the sequences of k different elements of S
RECURSIVE Arrangements(_, _)
Arrangements(S, k) ==
    IF k = 0 THEN {<<>>}
    ELSE UNION { { <<x>> \o t : t \in Arrangements(S \ {x}, k - 1) } : x \in S }

\* data-prep.ipynb:211-227: what QUERY can return on these tables.  There is
\* no ORDER BY: the rows come in any order, and any LIMIT of them when
\* there are more
QUERY(questions, answers) ==
    LET kept == Joined(questions, answers)
    IN  { [ i \in 1..Len(ps) |-> Selected(ps[i]) ] :
            ps \in Arrangements(kept, Min(Cardinality(kept), LIMIT)) }

\* to_pandas(): the rows under a RangeIndex
to_pandas(rows) ==
    [ i \in 1..Len(rows) |-> [ index |-> i - 1 ] @@ rows[i] ]

\* what the table posts_questions can hold when a query runs
posts_questions == SUBSET QuestionPool

\* the rows of a table in the order of their ids
RECURSIVE ById(_)
ById(rows) ==
    IF rows = {} THEN <<>>
    ELSE LET first == CHOOSE r \in rows : \A o \in rows : r.id <= o.id
         IN  <<first>> \o ById(rows \ {first})

\* data-prep.ipynb:148-154: SELECT * ... LIMIT 3
INSPECT_QUERY(questions) ==
    SubSeq(ById(questions), 1, Min(Cardinality(questions), 3))

\* data-prep.ipynb:179-184: SELECT * without LIMIT
QUERY_ALL(questions) == ById(questions)

\* the exception loading a result that does not fit into memory raises
OversizedResultError == "MemoryError"

\* what the three queries can return, over the tables
InspectResults == { INSPECT_QUERY(qs) : qs \in posts_questions }
AllResults == { QUERY_ALL(qs) : qs \in posts_questions }
JoinResults == UNION { QUERY(qs, posts_answers) : qs \in posts_questions }

\* query_job.result().to_arrow().to_pandas(): the rows as a DataFrame, or
\* the remote call fails
Loaded(rowsets) ==
    { Returned(to_pandas(rows)) : rows \in rowsets }
        \cup { Raised("UpstreamError", <<>>) }

\* the same for the unrestricted query: the rows may not fit into memory
LoadedAll(rowsets) ==
    Loaded(rowsets) \cup { Raised(OversizedResultError, <<>>) }

\* one run of a query: bq_client.query(sql) starts the job and can fail;
\* query_job.result().to_arrow().to_pandas() loads the rows and can fail.
\* log is what the run adds to calls (the rows themselves are not logged),
\* at is the call that raised
RunQuery(sql, results) ==
    { [ log |-> << Call("query", "bigquery", sql, Raised("UpstreamError", None)) >>,
        at |-> "query", raised |-> "UpstreamError", value |-> <<>> ] }
      \cup
    { [ log |-> << Call("query", "bigquery", sql, Returned(None)),
                   Call("result", "bigquery", sql, [ raised |-> o.raised, value |-> None ]) >>,
        at |-> "result", raised |-> o.raised, value |-> o.value ] : o \in results }

\* a handler that lets the exception out of the cell
OnLoadFailure_raise(cell) == "failed"

\* data-prep.ipynb:187-190: except Exception catches whatever loading the
\* result raised; the cell ends normally and the next cell runs
OnLoadFailure(cell) == "dp7"

-----------------------------------------------------------------------------
(* The data preparation notebook: split, date, JSON Lines *)

\* rng.permutation(n) of numpy's RandomState(42), as positions 1..n
Permutation42(n) ==
    CASE n = 0 -> << >>
      [] n = 1 -> << 1 >>
      [] n = 2 -> << 2, 1 >>
      [] n = 3 -> << 1, 2, 3 >>
      [] n = 4 -> << 2, 4, 1, 3 >>
      [] n = 5 -> << 2, 5, 3, 1, 4 >>
      [] n = 6 -> << 1, 2, 6, 3, 5, 4 >>
      [] n = 7 -> << 1, 2, 6, 3, 5, 4, 7 >>
      [] n = 8 -> << 2, 6, 1, 8, 3, 5, 4, 7 >>

\* ceil(test_size * n) for test_size = 0.2
n_test(n) == (n + 4) \div 5

\* a split whose training rows start one position early: the last
\* evaluation row is a training row too
train_test_split_overlapping(df) ==
    LET n == Len(df)
        perm == Permutation42(n)
    IN  IF n - n_test(n) <= 0
        THEN Raised("ValueError", << <<>>, <<>> >>)
        ELSE Returned(<< [ i \in 1..(n - n_test(n) + 1) |-> df[perm[n_test(n) + i - 1]] ],
                         [ i \in 1..n_test(n) |-> df[perm[i]] ] >>)

\* data-prep.ipynb:285-289: train_test_split(df, test_size=0.2,
\* random_state=42): the first n_test rows of the permutation are the
\* evaluation rows, the others the training rows; ValueError when no
\* training row would be left
train_test_split(df) ==
    LET n == Len(df)
        perm == Permutation42(n)
    IN  IF n - n_test(n) <= 0
        THEN Raised("ValueError", << <<>>, <<>> >>)
        ELSE Returned(<< [ i \in 1..(n - n_test(n)) |-> df[perm[n_test(n) + i]] ],
                         [ i \in 1..n_test(n) |-> df[perm[i]] ] >>)

\* what datetime.datetime.now() can return: two moments of the same hour
\* and one of the next
Clock ==
    { [ Y |-> "2024", m |-> "05", d |-> "17", H |-> "09", M |-> "05" ],
      [ Y |-> "2024", m |-> "05", d |-> "17", H |-> "09", M |-> "40" ],
      [ Y |-> "2024", m |-> "05", d |-> "17", H |-> "10", M |-> "05" ] }

\* data-prep.ipynb:311: strftime("%H:%d:%m:%Y")
strftime(t) == t.H \o ":" \o t.d \o ":" \o t.m \o ":" \o t.Y

\* data-prep.ipynb:334
training_data_filename(d) ==
    "tune_data_stack_overflow_python_qa-" \o d \o ".jsonl"

\* data-prep.ipynb:330
cols == << "input_text_instruct", "output_text" >>

\* an encoder that writes a line break as it is
EscapeChar_raw_newline(c) ==
    CASE c = "\"" -> "\\\""
      [] c = "\\" -> "\\\\"
      [] c = "/"  -> "\\/"
      [] OTHER    -> c

\* an encoder that writes a backslash as it is
EscapeChar_raw_backslash(c) ==
    CASE c = "\"" -> "\\\""
      [] c = "\n" -> "\\n"
      [] c = "/"  -> "\\/"
      [] OTHER    -> c

\* to_json's encoding of one character of a string: quote, backslash,
\* line break and slash are escaped
EscapeChar(c) ==
    CASE c = "\"" -> "\\\""
      [] c = "\\" -> "\\\\"
      [] c = "\n" -> "\\n"
      [] c = "/"  -> "\\/"
      [] OTHER    -> c

\* the characters lo..hi of a text, encoded one by one
RECURSIVE Escape(_, _, _)
Escape(text, lo, hi) ==
    IF lo > hi THEN ""
    ELSE IF lo = hi THEN EscapeChar(SubSeq(text, lo, lo))
    ELSE LET mid == (lo + hi) \div 2
         IN  Escape(text, lo, mid) \o Escape(text, mid + 1, hi)

\* a string as to_json writes it
JsonString(text) == "\"" \o Escape(text, 1, Len(text)) \o "\""

\* one row as to_json(orient="records") writes it: the columns in their
\* order, no spaces
JsonRecord(row, columns) ==
    "{" \o JsonString(columns[1]) \o ":" \o JsonString(row[columns[1]])
        \o "," \o JsonString(columns[2]) \o ":" \o JsonString(row[columns[2]])
        \o "}"

RECURSIVE JoinLines(_, _)
JoinLines(lines, i) ==
    IF i > Len(lines) THEN ""
    ELSE lines[i] \o (IF i < Len(lines) THEN "\n" ELSE "") \o JoinLines(lines, i + 1)

\* what pandas puts after the last record: a line break or nothing,
\* by its version
LineEnds == {"", "\n"}

\* data-prep.ipynb:331: df[columns].to_json(orient="records", lines=True)
to_json(df, columns, last) ==
    JoinLines([ i \in 1..Len(df) |-> JsonRecord(df[i], columns) ], 1) \o last

-----------------------------------------------------------------------------
(* The cells of the data preparation notebook *)

\* the names of the serving notebook before its first cell
ServingUnbound ==
    /\ list_tuned_models = <<>>
    /\ tuned_model_select = None
    /\ deployed_model = None
    /\ INSTRUCTION = None
    /\ QUESTION = None
    /\ PROMPT = None
    /\ response = NoResponse
    /\ output = None
    /\ final_output = None
    /\ final_response = NoResponse
    /\ blocked = None
    /\ safety_attributes = NoPrediction
    /\ citation = <<>>

\* every name that is not the data preparation notebook's
notDataPrep == << servingNames, outstanding, pipelineNames, execution >>

DataPrepInit ==
    /\ pc = "dp1"
    /\ error = None
    /\ calls = <<>>
    /\ printed = <<>>
    /\ outstanding = <<>>
    /\ ServingUnbound
    /\ DataPrepUnbound
    /\ PipelineUnbound

\* the tables INFORMATION_SCHEMA.TABLES lists
TableNames == << "posts_answers", "posts_questions" >>

\* data-prep.ipynb:47-51: credentials, PROJECT_ID, REGION
Authenticate ==
    /\ pc = "dp1"
    /\ pc' = "dp2"
    /\ UNCHANGED << error, calls, printed, dataPrepNames, notDataPrep >>

\* data-prep.ipynb:70-73: vertexai.init
InitSdk ==
    /\ pc = "dp2"
    /\ pc' = "dp3"
    /\ UNCHANGED << error, calls, printed, dataPrepNames, notDataPrep >>

\* data-prep.ipynb:93-95: bigquery.Client
InitBigQuery ==
    /\ pc = "dp3"
    /\ pc' = "dp4"
    /\ UNCHANGED << error, calls, printed, dataPrepNames, notDataPrep >>

\* data-prep.ipynb:117-128
QueryTableNames ==
    /\ pc = "dp4"
    /\ \E r \in RunQuery("QUERY_TABLES",
                         {Returned(TableNames), Raised("UpstreamError", <<>>)}) :
          /\ calls' = calls \o r.log
          /\ IF r.raised # None
             THEN /\ pc' = OnRaise("dp4")
                  /\ error' = r.raised
                  /\ UNCHANGED printed
             ELSE /\ printed' = printed \o
                        [ i \in 1..Len(r.value) |-> Shown("value", r.value[i]) ]
                  /\ pc' = "dp5"
                  /\ UNCHANGED error
    /\ UNCHANGED << dataPrepNames, notDataPrep >>

\* data-prep.ipynb:148-160
InspectQuestions ==
    /\ pc = "dp5"
    /\ \E r \in RunQuery("INSPECT_QUERY", Loaded(InspectResults)) :
          /\ calls' = calls \o r.log
          /\ IF r.raised # None
             THEN /\ pc' = OnRaise("dp5")
                  /\ error' = r.raised
                  /\ UNCHANGED stack_overflow_df
             ELSE /\ stack_overflow_df' = r.value
                  /\ pc' = "dp6"
                  /\ UNCHANGED error
    /\ UNCHANGED << printed, train, evaluation, date, tune_jsonl, files,
                    notDataPrep >>

\* data-prep.ipynb:179-190: bq_client.query is called before the try; the
\* try holds the load of the result
LoadAllQuestions ==
    /\ pc = "dp6"
    /\ \E r \in RunQuery("QUERY_ALL", LoadedAll(AllResults)) :
          /\ calls' = calls \o r.log
          /\ IF r.raised # None /\ r.at = "query"
             THEN /\ pc' = OnRaise("dp6")
                  /\ error' = r.raised
                  /\ UNCHANGED << stack_overflow_df, printed >>
             ELSE IF r.raised # None
             THEN /\ pc' = OnLoadFailure("dp6")
                  /\ error' = IF pc' = "failed" THEN r.raised ELSE error
                  /\ printed' =
                        IF pc' = "failed" THEN printed
                        ELSE Append(printed,
                                Shown("'The DataFrame is too large to load into memory.', e",
                                      r.raised))
                  /\ UNCHANGED stack_overflow_df
             ELSE /\ stack_overflow_df' = r.value
                  /\ pc' = "dp7"
                  /\ UNCHANGED << error, printed >>
    /\ UNCHANGED << train, evaluation, date, tune_jsonl, files, notDataPrep >>

\* data-prep.ipynb:211-232
JoinQuestionsAnswers ==
    /\ pc = "dp7"
    /\ \E r \in RunQuery("QUERY", Loaded(JoinResults)) :
          /\ calls' = calls \o r.log
          /\ IF r.raised # None
             THEN /\ pc' = OnRaise("dp7")
                  /\ error' = r.raised
                  /\ UNCHANGED stack_overflow_df
             ELSE /\ stack_overflow_df' = r.value
                  /\ pc' = "dp8"
                  /\ UNCHANGED error
    /\ UNCHANGED << printed, train, evaluation, date, tune_jsonl, files,
                    notDataPrep >>

\* data-prep.ipynb:252-261
AddInstructions ==
    /\ pc = "dp8"
    /\ stack_overflow_df' =
          [ i \in 1..Len(stack_overflow_df) |->
              [ input_text_instruct |->
                    input_text_instruct(stack_overflow_df[i].input_text) ]
                  @@ stack_overflow_df[i] ]
    /\ pc' = "dp9"
    /\ UNCHANGED << error, calls, printed, train, evaluation, date, tune_jsonl,
                    files, notDataPrep >>

\* data-prep.ipynb:282-289
SplitData ==
    /\ pc = "dp9"
    /\ LET o == train_test_split(stack_overflow_df)
       IN  IF o.raised # None
           THEN /\ pc' = OnRaise("dp9")
                /\ error' = o.raised
                /\ UNCHANGED << train, evaluation >>
           ELSE /\ train' = o.value[1]
                /\ evaluation' = o.value[2]
                /\ pc' = "dp10"
                /\ UNCHANGED error
    /\ UNCHANGED << calls, printed, stack_overflow_df, date, tune_jsonl, files,
                    notDataPrep >>

\* data-prep.ipynb:310-311
VersionDate ==
    /\ pc = "dp10"
    /\ \E now \in Clock : date' = strftime(now)
    /\ pc' = "dp11"
    /\ UNCHANGED << error, calls, printed, stack_overflow_df, train, evaluation,
                    tune_jsonl, files, notDataPrep >>

\* data-prep.ipynb:330-336
WriteTrainingFile ==
    /\ pc = "dp11"
    /\ \E last \in LineEnds : tune_jsonl' = to_json(train, cols, last)
    /\ files' = (training_data_filename(date) :> tune_jsonl') @@ files
    /\ pc' = "done"
    /\ UNCHANGED << error, calls, printed, stack_overflow_df, train, evaluation,
                    date, notDataPrep >>

DataPrepNext ==
    \/ Authenticate
    \/ InitSdk
    \/ InitBigQuery
    \/ QueryTableNames
    \/ InspectQuestions
    \/ LoadAllQuestions
    \/ JoinQuestionsAnswers
    \/ AddInstructions
    \/ SplitData
    \/ VersionDate
    \/ WriteTrainingFile

DataPrepSpec == DataPrepInit /\ [][DataPrepNext]_vars

-----------------------------------------------------------------------------
(* Reading a JSON Lines file: the lines between line breaks, each one a    *)
(* JSON object of string members                                           *)

\* the positions of the line breaks of a text
Breaks(text) == { i \in 1..Len(text) : SubSeq(text, i, i) = "\n" }

\* the lines of a text: what stands between its line breaks; a line break
\* at the end ends the last line
Lines(text) ==
    LET starts == { st \in {1} \cup { i + 1 : i \in Breaks(text) } : st <= Len(text) }
        Nth(k) == CHOOSE st \in starts : Cardinality({ o \in starts : o < st }) = k - 1
        EndOf(st) ==
            LET later == { b \in Breaks(text) : b >= st }
            IN  IF later = {} THEN Len(text)
                ELSE (CHOOSE b \in later : \A o \in later : b <= o) - 1
    IN  [ k \in 1..Cardinality(starts) |-> SubSeq(text, Nth(k), EndOf(Nth(k))) ]

\* the character an escape stands for
Unescape(c) ==
    CASE c = "n" -> "\n"
      [] c = "t" -> "\t"
      [] c = "r" -> "\r"
      [] c = "f" -> "\f"
      [] OTHER   -> c

\* the characters lo..hi of a text read as the inside of a JSON string;
\* esc tells that the character before lo was a backslash opening an
\* escape.  close is the position of the closing quote when it is in
\* lo..hi (0 when not), value the characters read before it, ok that they
\* are what a JSON string may hold
RECURSIVE Scan(_, _, _, _)
Scan(text, lo, hi, esc) ==
    IF lo > hi THEN [ ok |-> TRUE, value |-> "", esc |-> esc, close |-> 0 ]
    ELSE IF lo = hi
    THEN LET c == SubSeq(text, lo, lo)
         IN  IF esc
             THEN [ ok |-> c \in {"\"", "\\", "/", "n", "t", "r", "f"},
                    value |-> Unescape(c),
                    esc |-> FALSE, close |-> 0 ]
             ELSE IF c = "\\"
             THEN [ ok |-> TRUE, value |-> "", esc |-> TRUE, close |-> 0 ]
             ELSE IF c = "\""
             THEN [ ok |-> TRUE, value |-> "", esc |-> FALSE, close |-> lo ]
             ELSE [ ok |-> c # "\n", value |-> c, esc |-> FALSE, close |-> 0 ]
    ELSE LET mid == (lo + hi) \div 2
             left == Scan(text, lo, mid, esc)
             right == Scan(text, mid + 1, hi, left.esc)
         IN  IF left.close # 0 \/ ~left.ok THEN left
             ELSE [ ok |-> right.ok, value |-> left.value \o right.value,
                    esc |-> right.esc, close |-> right.close ]

\* the JSON string whose first character after the opening quote is at i:
\* its value and the position after its closing quote
ReadString(text, i) ==
    LET r == Scan(text, i, Len(text), FALSE)
    IN  [ ok |-> r.ok /\ r.close # 0, value |-> r.value, next |-> r.close + 1 ]

At(text, i) == IF i >= 1 /\ i <= Len(text) THEN SubSeq(text, i, i) ELSE ""

\* the members of a JSON object from position i on, added to acc
RECURSIVE ReadMembers(_, _, _)
ReadMembers(text, i, acc) ==
    IF At(text, i) # "\"" THEN [ ok |-> FALSE, value |-> acc ]
    ELSE LET key == ReadString(text, i + 1)
         IN  IF ~key.ok \/ At(text, key.next) # ":" \/ At(text, key.next + 1) # "\""
             THEN [ ok |-> FALSE, value |-> acc ]
             ELSE LET val == ReadString(text, key.next + 2)
                      members == (key.value :> val.value) @@ acc
                  IN  IF ~val.ok THEN [ ok |-> FALSE, value |-> acc ]
                      ELSE IF At(text, val.next) = "}" /\ val.next = Len(text)
                           THEN [ ok |-> TRUE, value |-> members ]
                           ELSE IF At(text, val.next) = ","
                                THEN ReadMembers(text, val.next + 1, members)
                                ELSE [ ok |-> FALSE, value |-> acc ]

\* one line read as a JSON object whose members are strings
ReadObject(line) ==
    IF At(line, 1) = "{" THEN ReadMembers(line, 2, <<>>)
    ELSE [ ok |-> FALSE, value |-> <<>> ]

\* the records of a JSON Lines text, in the order of its lines
ReadJsonl(text) ==
    LET lines == Lines(text)
    IN  [ k \in 1..Len(lines) |-> ReadObject(lines[k]) ]

\* the training file of the run
TrainingFile == files[training_data_filename(date)]

\* the columns of a row that are written
Written(row) ==
    [ input_text_instruct |-> row.input_text_instruct,
      output_text |-> row.output_text ]

-----------------------------------------------------------------------------
(* Failures of remote calls *)

\* C12: a remote call that failed, and not because its result is too
\* large, is the last call of the run: the run stopped there with that
\* failure as its error, and no call was issued after it
C12_FailuresReachCaller ==
    \A i \in 1..Len(calls) :
        (calls[i].raised \notin {None, OversizedResultError})
            => /\ i = Len(calls)
               /\ pc = "failed"
               /\ error = calls[i].raised

\* the load of the unrestricted query's result failed for lack of memory
OversizedLoad(i) ==
    /\ calls[i].op = "result"
    /\ calls[i].prompt = "QUERY_ALL"
    /\ calls[i].raised = OversizedResultError

\* C13: after the load of the unrestricted query's result failed for lack
\* of memory, the failure is printed, it is not the run's error, and the
\* run goes on: the join query is the next cell to run, or has run
C13_OversizedResultCaught ==
    \A i \in 1..Len(calls) :
        OversizedLoad(i)
            => /\ \E k \in 1..Len(printed) : printed[k].value = OversizedResultError
               /\ error # OversizedResultError
               /\ pc # "dp6"
               /\ i = Len(calls) => (pc = "dp7" /\ ENABLED JoinQuestionsAnswers)
               /\ pc = "failed" => i < Len(calls) \/ error = "ValueError"

C13_Witness ==
    /\ \E i \in 1..Len(calls) : OversizedLoad(i)
    /\ pc = "done"
    /\ Len(stack_overflow_df) >= 2
    /\ Len(train) >= 1
    /\ training_data_filename(date) \in DOMAIN files

-----------------------------------------------------------------------------
(* The training file *)

C15_RoundTrip ==
    pc = "done" =>
        LET records == ReadJsonl(TrainingFile)
        IN  /\ Len(records) = Len(train)
            /\ \A k \in 1..Len(train) :
                  /\ records[k].ok
                  /\ records[k].value = Written(train[k])

C15_Witness ==
    /\ pc = "done"
    /\ Len(train) >= 3
    /\ Written(train[1]) # Written(train[2])
    /\ \E k \in 1..Len(train) :
          /\ train[k].output_text = "\\n"
          /\ ReadJsonl(TrainingFile)[k].value.output_text = "\\n"
    /\ \E k \in 1..Len(train) :
          /\ train[k].output_text = "use\n\"pd\""
          /\ ReadJsonl(TrainingFile)[k].value.output_text = "use\n\"pd\""

-----------------------------------------------------------------------------
(* The split *)

\* the index labels of the rows of a DataFrame
Labels(df) == { df[i].index : i \in 1..Len(df) }

\* C20: train and evaluation partition the rows of stack_overflow_df:
\* every row is in exactly one of the two, as it was; evaluation holds a
\* fifth of the rows, rounded up to the next row, and train the others
C20_SplitPartitions ==
    pc \in {"dp10", "dp11", "done"} =>
        /\ Labels(train) \cup Labels(evaluation) = Labels(stack_overflow_df)
        /\ Labels(train) \cap Labels(evaluation) = {}
        /\ Len(train) + Len(evaluation) = Len(stack_overflow_df)
        /\ Range(train) \cup Range(evaluation) = Range(stack_overflow_df)
        /\ 5 * Len(evaluation) >= Len(stack_overflow_df)
        /\ 5 * (Len(evaluation) - 1) < Len(stack_overflow_df)

C20_Witness ==
    /\ pc = "dp10"
    /\ Len(stack_overflow_df) = 5
    /\ Len(evaluation) = 1
    /\ Len(train) = 4
    /\ evaluation[1].index = 1
    /\ \E i, j \in 1..4 :
          /\ train[i].index # train[j].index
          /\ Written(train[i]) = Written(train[j])

-----------------------------------------------------------------------------
(* The serving notebook with every remote call in two steps: the request   *)
(* is issued, and later the call returns or raises.  Between the two the   *)
(* cell is inside the call.                                                *)

\* every name that is neither the serving notebook's nor outstanding
notDispatch == << dataPrepNames, pipelineNames, execution >>

\* the position of a cell that is inside its remote call
InCall(cell) == cell \o ":call"

\* one entry of outstanding
Request(cell, op, target, prompt) ==
    [ cell |-> cell, op |-> op, target |-> target, prompt |-> prompt ]

\* a first predict that hands back a future: the run goes on to the second
\* request while the first is not answered
AfterIssue_async(cell) == IF cell = "cell6" THEN "cell9" ELSE InCall(cell)

\* part_000:135, 182, 205, 295: the calls are plain method calls, the
\* statement after a call runs when the call has returned
AfterIssue(cell) == InCall(cell)

\* part_000:135, the request
ListDeployedModelsCall ==
    /\ pc = "cell3"
    /\ outstanding' = Append(outstanding,
            Request("cell3", "list_tuned_model_names", PretrainedModel, None))
    /\ pc' = AfterIssue("cell3")
    /\ UNCHANGED << error, servingNames, calls, printed, notDispatch >>

\* part_000:135-139, from the answer on
ListDeployedModelsReturn ==
    /\ pc = InCall("cell3")
    /\ outstanding # <<>>
    /\ outstanding' = SubSeq(outstanding, 1, Len(outstanding) - 1)
    /\ \E o \in list_tuned_model_names :
          /\ calls' = Append(calls,
                  Call("list_tuned_model_names", PretrainedModel, None, o))
          /\ IF o.raised # None
             THEN /\ pc' = OnRaise("cell3")
                  /\ error' = o.raised
                  /\ UNCHANGED << list_tuned_models, printed >>
             ELSE /\ list_tuned_models' = o.value
                  /\ printed' = printed \o
                        [ i \in 1..Len(o.value) |-> Shown("i", o.value[i]) ]
                  /\ pc' = "cell4"
                  /\ UNCHANGED error
    /\ UNCHANGED << tuned_model_select, deployed_model, INSTRUCTION, QUESTION,
                    PROMPT, response, output, final_output, final_response,
                    blocked, safety_attributes, citation, notDispatch >>

\* part_000:182, the request
LoadSelectedModelCall ==
    /\ pc = "cell5"
    /\ outstanding' = Append(outstanding,
            Request("cell5", "get_tuned_model", tuned_model_select, None))
    /\ pc' = AfterIssue("cell5")
    /\ UNCHANGED << error, servingNames, calls, printed, notDispatch >>

\* part_000:182-185, from the answer on
LoadSelectedModelReturn ==
    /\ pc = InCall("cell5")
    /\ outstanding # <<>>
    /\ outstanding' = SubSeq(outstanding, 1, Len(outstanding) - 1)
    /\ \E o \in get_tuned_model(tuned_model_select) :
          /\ calls' = Append(calls,
                  Call("get_tuned_model", tuned_model_select, None, o))
          /\ IF o.raised # None
             THEN /\ pc' = OnRaise("cell5")
                  /\ error' = o.raised
                  /\ UNCHANGED << deployed_model, PROMPT >>
             ELSE /\ deployed_model' = o.value
                  /\ PROMPT' = PROMPT_1
                  /\ pc' = "cell6"
                  /\ UNCHANGED error
    /\ UNCHANGED << list_tuned_models, tuned_model_select, INSTRUCTION,
                    QUESTION, response, output, final_output, final_response,
                    blocked, safety_attributes, citation, printed, notDispatch >>

\* part_000:205, the request
SendPromptCall ==
    /\ pc = "cell6"
    /\ outstanding' = Append(outstanding,
            Request("cell6", "predict", Receiver("cell6"), PROMPT))
    /\ pc' = AfterIssue("cell6")
    /\ UNCHANGED << error, servingNames, calls, printed, notDispatch >>

\* part_000:205-208, from the answer on
SendPromptReturn ==
    /\ pc = InCall("cell6")
    /\ outstanding # <<>>
    /\ outstanding' = SubSeq(outstanding, 1, Len(outstanding) - 1)
    /\ \E o \in predict(Receiver("cell6"), PROMPT) :
          /\ calls' = Append(calls, Call("predict", Receiver("cell6"), PROMPT, o))
          /\ IF o.raised # None
             THEN /\ pc' = OnRaise("cell6")
                  /\ error' = o.raised
                  /\ UNCHANGED << response, printed >>
             ELSE /\ response' = o.value
                  /\ printed' = Append(printed, Shown("response", o.value))
                  /\ pc' = "cell7"
                  /\ UNCHANGED error
    /\ UNCHANGED << list_tuned_models, tuned_model_select, deployed_model,
                    INSTRUCTION, QUESTION, PROMPT, output, final_output,
                    final_response, blocked, safety_attributes, citation,
                    notDispatch >>

\* part_000:276-295, up to the request
PromptWithInstructionCall ==
    /\ pc = "cell9"
    /\ INSTRUCTION' = INSTRUCTION_TEXT
    /\ QUESTION' = QUESTION_TEXT
    /\ PROMPT' = Render(INSTRUCTION', QUESTION')
    /\ printed' = Append(printed, Shown("PROMPT", PROMPT'))
    /\ outstanding' = Append(outstanding,
            Request("cell9", "predict", Receiver("cell9"), PROMPT'))
    /\ pc' = AfterIssue("cell9")
    /\ UNCHANGED << error, list_tuned_models, tuned_model_select,
                    deployed_model, response, output, final_output,
                    final_response, blocked, safety_attributes, citation,
                    calls, notDispatch >>

\* part_000:295-301, from the answer on
PromptWithInstructionReturn ==
    /\ pc = InCall("cell9")
    /\ outstanding # <<>>
    /\ outstanding' = SubSeq(outstanding, 1, Len(outstanding) - 1)
    /\ \E o \in predict(Receiver("cell9"), PROMPT) :
          /\ calls' = Append(calls, Call("predict", Receiver("cell9"), PROMPT, o))
          /\ IF o.raised # None
             THEN /\ pc' = OnRaise("cell9")
                  /\ error' = o.raised
                  /\ UNCHANGED << final_response, output, printed >>
             ELSE /\ final_response' = o.value
                  /\ output' = Get(Item0(Item0(final_response'.prediction_response)),
                                    "content")
                  /\ printed' = Append(printed, Shown("output", output'))
                  /\ pc' = "cell10"
                  /\ UNCHANGED error
    /\ UNCHANGED << list_tuned_models, tuned_model_select, deployed_model,
                    INSTRUCTION, QUESTION, PROMPT, response, final_output,
                    blocked, safety_attributes, citation, notDispatch >>

BlockingNext ==
    \/ LoadCredentials
    \/ InitVertexAI
    \/ ListDeployedModelsCall
    \/ ListDeployedModelsReturn
    \/ SelectModel
    \/ LoadSelectedModelCall
    \/ LoadSelectedModelReturn
    \/ SendPromptCall
    \/ SendPromptReturn
    \/ ExtractFirstObject
    \/ ExtractContent
    \/ PromptWithInstructionCall
    \/ PromptWithInstructionReturn
    \/ CheckSafetyAttributes
    \/ CheckCitations

BlockingSpec == Init /\ [][BlockingNext]_vars

\* C17: at most one remote request is outstanding, the notebook is inside
\* the call that issued it, and while the second predict request is
\* outstanding the first predict call has returned its response
C17_OneOutstandingRequest ==
    /\ Len(outstanding) <= 1
    /\ \A i \in 1..Len(outstanding) :
          /\ pc = InCall(outstanding[i].cell)
          /\ outstanding[i].cell = "cell9"
                => /\ Len(PredictCalls) = 1
                   /\ PredictCalls[1].raised = None
                   /\ response = PredictCalls[1].produced

C17_Witness ==
    /\ Len(outstanding) = 1
    /\ outstanding[1].cell = "cell9"
    /\ outstanding[1].op = "predict"
    /\ outstanding[1].prompt = Render(INSTRUCTION_TEXT, QUESTION_TEXT)
    /\ Len(PredictCalls) = 1
    /\ response # NoResponse

-----------------------------------------------------------------------------
(* The two requests of the serving notebook handled in parallel: the       *)
(* statements of part_000:184-208 and of part_000:286-301 run as two       *)
(* threads of one kernel, over the notebook's names as they are.  pc holds *)
(* the position of the first and of the second handler.                    *)

\* the session both handlers find: a registry of two endpoints listed, one
\* of them selected and loaded, the instruction and the question bound
ParallelInit ==
    /\ pc = << "first1", "second1" >>
    /\ error = None
    /\ outstanding = <<>>
    /\ DataPrepUnbound
    /\ PipelineUnbound
    /\ list_tuned_models \in { r \in Registries : Len(r) = 2 /\ r[1] # r[2] }
    /\ tuned_model_select \in Range(list_tuned_models)
    /\ deployed_model = tuned_model_select
    /\ INSTRUCTION = INSTRUCTION_TEXT
    /\ QUESTION = QUESTION_TEXT
    /\ PROMPT = None
    /\ response = NoResponse
    /\ output = None
    /\ final_output = None
    /\ final_response = NoResponse
    /\ blocked = None
    /\ safety_attributes = NoPrediction
    /\ citation = <<>>
    /\ calls = <<>>
    /\ printed = <<>>

\* the names neither handler assigns
notHandled ==
    << list_tuned_models, tuned_model_select, deployed_model, INSTRUCTION,
       QUESTION, final_output, blocked, safety_attributes, citation,
       notServing >>

\* part_000:185
FirstSetPrompt ==
    /\ pc[1] = "first1"
    /\ PROMPT' = PROMPT_1
    /\ pc' = << "first2", pc[2] >>
    /\ UNCHANGED << error, response, final_response, output, calls, printed,
                    notHandled >>

\* part_000:205: predict is given what PROMPT holds when the call is made
FirstPredict ==
    /\ pc[1] = "first2"
    /\ \E o \in predict(Receiver("cell6"), PROMPT) :
          /\ calls' = Append(calls, Call("predict", Receiver("cell6"), PROMPT, o))
          /\ IF o.raised # None
             THEN /\ pc' = << OnRaise("cell6"), pc[2] >>
                  /\ error' = o.raised
                  /\ UNCHANGED response
             ELSE /\ response' = o.value
                  /\ pc' = << "first3", pc[2] >>
                  /\ UNCHANGED error
    /\ UNCHANGED << PROMPT, final_response, output, printed, notHandled >>

\* part_000:208
FirstPrintResponse ==
    /\ pc[1] = "first3"
    /\ printed' = Append(printed, Shown("response", response))
    /\ pc' = << "done", pc[2] >>
    /\ UNCHANGED << error, PROMPT, response, final_response, output, calls,
                    notHandled >>

\* part_000:287-289
SecondRenderPrompt ==
    /\ pc[2] = "second1"
    /\ PROMPT' = Render(INSTRUCTION, QUESTION)
    /\ pc' = << pc[1], "second2" >>
    /\ UNCHANGED << error, response, final_response, output, calls, printed,
                    notHandled >>

\* part_000:292
SecondPrintPrompt ==
    /\ pc[2] = "second2"
    /\ printed' = Append(printed, Shown("PROMPT", PROMPT))
    /\ pc' = << pc[1], "second3" >>
    /\ UNCHANGED << error, PROMPT, response, final_response, output, calls,
                    notHandled >>

\* a second handler that binds its response to the name of the first
SecondPredict_into_response ==
    /\ pc[2] = "second3"
    /\ \E o \in predict(Receiver("cell9"), PROMPT) :
          /\ calls' = Append(calls, Call("predict", Receiver("cell9"), PROMPT, o))
          /\ IF o.raised # None
             THEN /\ pc' = << pc[1], OnRaise("cell9") >>
                  /\ error' = o.raised
                  /\ UNCHANGED response
             ELSE /\ response' = o.value
                  /\ pc' = << pc[1], "second4" >>
                  /\ UNCHANGED error
    /\ UNCHANGED << PROMPT, final_response, output, printed, notHandled >>

\* part_000:295
SecondPredict ==
    /\ pc[2] = "second3"
    /\ \E o \in predict(Receiver("cell9"), PROMPT) :
          /\ calls' = Append(calls, Call("predict", Receiver("cell9"), PROMPT, o))
          /\ IF o.raised # None
             THEN /\ pc' = << pc[1], OnRaise("cell9") >>
                  /\ error' = o.raised
                  /\ UNCHANGED final_response
             ELSE /\ final_response' = o.value
                  /\ pc' = << pc[1], "second4" >>
                  /\ UNCHANGED error
    /\ UNCHANGED << PROMPT, response, output, printed, notHandled >>

\* part_000:298
SecondReadContent ==
    /\ pc[2] = "second4"
    /\ output' = Get(Item0(Item0(final_response.prediction_response)), "content")
    /\ pc' = << pc[1], "second5" >>
    /\ UNCHANGED << error, PROMPT, response, final_response, calls, printed,
                    notHandled >>

\* part_000:301
SecondPrintOutput ==
    /\ pc[2] = "second5"
    /\ printed' = Append(printed, Shown("output", output))
    /\ pc' = << pc[1], "done" >>
    /\ UNCHANGED << error, PROMPT, response, final_response, output, calls,
                    notHandled >>

ParallelNext ==
    \/ FirstSetPrompt
    \/ FirstPredict
    \/ FirstPrintResponse
    \/ SecondRenderPrompt
    \/ SecondPrintPrompt
    \/ SecondPredict
    \/ SecondReadContent
    \/ SecondPrintOutput

ParallelSpec == ParallelInit /\ [][ParallelNext]_vars

\* the step in which the first, the second handler sends its request
FirstSends == pc[1] = "first2" /\ pc'[1] # "first2"
SecondSends == pc[2] = "second3" /\ pc'[2] # "second3"

\* the call the step has issued
Sent == calls'[Len(calls')]

-----------------------------------------------------------------------------
(* The pipeline notebooks: src/unnamed/part_001 compiles a pipeline and    *)
(* submits it, src/supervised-tuning-pipe.ipynb submits a published        *)
(* template.  One run is a run of one of the two.                          *)

\* a PipelineTask: the component called, its arguments, and the channel
\* that stands for its output while the pipeline is being defined
Task(component, arguments) ==
    [ component |-> component, arguments |-> arguments,
      output |-> [ task |-> component, name |-> "Output" ] ]

\* a pipeline parameter used as an argument
Parameter(name) == [ parameter |-> name ]

\* part_001:110-113 called outside a pipeline: the task, or RuntimeError
\* with a kfp that runs such a call locally and finds no local runner
say_hello_task(name) ==
    { Returned(Task("say-hello", [ name |-> name ])),
      Raised("RuntimeError", NoTask) }

\* part_001:207-216: the pipeline as defined: its parameter, its two tasks
\* in order, and the output it returns
hello_pipeline ==
    [ name |-> "hello-pipeline",
      inputs |-> {"recipient"},
      tasks |-> << Task("say-hello", [ name |-> Parameter("recipient") ]),
                   Task("how-are-you",
                        [ hello_text |-> Task("say-hello",
                              [ name |-> Parameter("recipient") ]).output ]) >>,
      output |-> [ task |-> "how-are-you", name |-> "Output" ] ]

\* part_001:262: compiler.Compiler().compile(pipeline, path) writes the
\* declarative spec of the pipeline
compile(pipeline) ==
    [ schemaVersion |-> "2.1.0",
      pipelineInfo |-> [ name |-> pipeline.name ],
      root |-> [ inputDefinitions |-> pipeline.inputs,
                 dag |-> [ t \in 1..Len(pipeline.tasks) |->
                             [ componentRef |-> pipeline.tasks[t].component,
                               inputs |-> pipeline.tasks[t].arguments ] ],
                 outputDefinitions |-> pipeline.output ] ]

\* a pipeline.yaml left by an earlier session, of a pipeline with the one
\* task say-hello
StaleSpec ==
    compile([ name |-> "hello-pipeline",
              inputs |-> {"recipient"},
              tasks |-> << Task("say-hello", [ name |-> Parameter("recipient") ]) >>,
              output |-> [ task |-> "say-hello", name |-> "Output" ] ])

\* supervised-tuning-pipe.ipynb:38-39
TRAINING_DATA_URI == "./tune_data_stack_overflow_python_qa.jsonl"
EVAUATION_DATA_URI == "./tune_eval_data_stack_overflow_python_qa.jsonl"

\* supervised-tuning-pipe.ipynb:88, 91
TRAINING_STEPS == 200
EVALUATION_INTERVAL == 20

\* supervised-tuning-pipe.ipynb:114, 117
PROJECT_ID == "project-1"
REGION == "us-central1"

\* supervised-tuning-pipe.ipynb:174
TEMPLATE_URL ==
    "https://us-kfp.pkg.dev/ml-pipeline/large-language-model-pipelines/tune-large-model/v2.0.0"

\* the template published at TEMPLATE_URL: a declarative spec the program
\* does not compile
PublishedTemplate ==
    [ schemaVersion |-> "2.1.0",
      pipelineInfo |-> [ name |-> "tune-large-model" ],
      root |-> [ inputDefinitions |->
                     { "model_display_name", "location", "large_model_reference",
                       "project", "train_steps", "dataset_uri",
                       "evaluation_interval", "evaluation_data_uri" },
                 dag |-> <<>>,
                 outputDefinitions |-> [ task |-> "tune-large-model", name |-> "Output" ] ] ]

\* PipelineJob(template_path=..., display_name=..., parameter_values=...):
\* the template is loaded when the job is made, from the registry for a
\* URL (a remote call that can fail), from the file system for a path
\* (FileNotFoundError without the file); a parameter the template does
\* not define is a ValueError
PipelineJob(path, display_name, parameter_values, fs) ==
    LET made(spec) ==
            IF DOMAIN parameter_values \subseteq spec.root.inputDefinitions
            THEN Returned([ template_path |-> path, display_name |-> display_name,
                            parameter_values |-> parameter_values, spec |-> spec,
                            submitted |-> FALSE ])
            ELSE Raised("ValueError", NoJob)
    IN  IF path = TEMPLATE_URL
        THEN { made(PublishedTemplate), Raised("UpstreamError", NoJob) }
        ELSE IF path \in DOMAIN fs
             THEN { made(fs[path]) }
             ELSE { Raised("FileNotFoundError", NoJob) }

\* the states of a pipeline job
PipelineStates ==
    { "PIPELINE_STATE_QUEUED", "PIPELINE_STATE_PENDING",
      "PIPELINE_STATE_RUNNING", "PIPELINE_STATE_SUCCEEDED",
      "PIPELINE_STATE_FAILED", "PIPELINE_STATE_CANCELLING",
      "PIPELINE_STATE_CANCELLED", "PIPELINE_STATE_PAUSED" }

\* job.submit(): the service creates the job, or the remote call fails
submit(j) ==
    { Returned("PIPELINE_STATE_PENDING"), Raised("UpstreamError", None) }

\* job.state: the state the service reports for a job it has created
\* (the remote call can fail); RuntimeError for a job never created
state(j) ==
    IF j.submitted
    THEN { Returned(st) : st \in PipelineStates } \cup { Raised("UpstreamError", None) }
    ELSE { Raised("RuntimeError", None) }

\* the names neither pipeline notebook assigns
notPipeline ==
    << servingNames, outstanding, stack_overflow_df, train, evaluation,
       tune_jsonl, execution >>

\* the cells of part_001 in their order
KubeflowCells ==
    << "kf1", "kf2", "kf3", "kf4", "kf5", "kf6", "kf7", "kf8", "kf9", "kf10",
       "kf11", "kf12", "done" >>

\* the cell below a cell of part_001
Below(cell) ==
    KubeflowCells[(CHOOSE i \in 1..Len(KubeflowCells) : KubeflowCells[i] = cell) + 1]

\* part_001 holds cells that are there to fail (part_001:235-242): it is
\* run cell by cell, and after a cell has raised the cell below is run
GoOn(cell) == Below(cell)

\* the kernel before the first cell of either notebook; pipeline.yaml may
\* be there from an earlier session
PipelineInit ==
    /\ pc \in {"kf1", "tp1"}
    /\ error = None
    /\ calls = <<>>
    /\ printed = <<>>
    /\ outstanding = <<>>
    /\ ServingUnbound
    /\ stack_overflow_df = <<>>
    /\ train = <<>>
    /\ evaluation = <<>>
    /\ date = None
    /\ tune_jsonl = None
    /\ files \in { <<>>, "pipeline.yaml" :> StaleSpec }
    /\ PipelineUnbound

\* part_001:54: a code cell that holds a sentence
TitleCell ==
    /\ pc = "kf1"
    /\ error' = "SyntaxError"
    /\ pc' = GoOn("kf1")
    /\ UNCHANGED << calls, printed, date, files, pipelineNames, notPipeline >>

\* part_001:82-90
ImportKfp ==
    /\ pc = "kf2"
    /\ pc' = "kf3"
    /\ UNCHANGED << error, calls, printed, date, files, pipelineNames, notPipeline >>

\* part_001:109-113
DefineSayHello ==
    /\ pc = "kf3"
    /\ pc' = "kf4"
    /\ UNCHANGED << error, calls, printed, date, files, pipelineNames, notPipeline >>

\* part_001:132-139
CallSayHello ==
    /\ pc = "kf4"
    /\ \E o \in say_hello_task("Erwin") :
          IF o.raised # None
          THEN /\ error' = o.raised
               /\ pc' = GoOn("kf4")
               /\ UNCHANGED << hello_task, printed >>
          ELSE /\ hello_task' = o.value
               /\ printed' = printed \o << Shown("hello_task", o.value),
                                           Shown("hello_task.output", o.value.output) >>
               /\ pc' = "kf5"
               /\ UNCHANGED error
    /\ UNCHANGED << calls, date, files, MODEL_NAME, pipeline_arguments,
                    template_path, job, how_task, notPipeline >>

\* part_001:158-162
DefineHowAreYou ==
    /\ pc = "kf5"
    /\ pc' = "kf6"
    /\ UNCHANGED << error, calls, printed, date, files, pipelineNames, notPipeline >>

\* part_001:181-186: NameError when hello_task is not bound
CallHowAreYou ==
    /\ pc = "kf6"
    /\ IF hello_task = NoTask
       THEN /\ error' = "NameError"
            /\ pc' = GoOn("kf6")
            /\ UNCHANGED << how_task, printed >>
       ELSE /\ how_task' = Task("how-are-you", [ hello_text |-> hello_task.output ])
            /\ printed' = printed \o << Shown("how_task", how_task'),
                                        Shown("how_task.output", how_task'.output) >>
            /\ pc' = "kf7"
            /\ UNCHANGED error
    /\ UNCHANGED << calls, date, files, MODEL_NAME, pipeline_arguments,
                    template_path, job, hello_task, notPipeline >>

\* part_001:206-216
DefineHelloPipeline ==
    /\ pc = "kf7"
    /\ pc' = "kf8"
    /\ UNCHANGED << error, calls, printed, date, files, pipelineNames, notPipeline >>

\* part_001:235-242: the pipeline returns a task where it declares str; the
\* decorator raises
DefinePipelineWithError ==
    /\ pc = "kf8"
    /\ error' = "TypeError"
    /\ pc' = GoOn("kf8")
    /\ UNCHANGED << calls, printed, date, files, pipelineNames, notPipeline >>

\* a compile step that writes hello.yaml
CompilePipeline_elsewhere ==
    /\ pc = "kf9"
    /\ files' = ("hello.yaml" :> compile(hello_pipeline)) @@ files
    /\ pc' = "kf10"
    /\ UNCHANGED << error, calls, printed, date, pipelineNames, notPipeline >>

\* part_001:261-262
CompilePipeline ==
    /\ pc = "kf9"
    /\ files' = ("pipeline.yaml" :> compile(hello_pipeline)) @@ files
    /\ pc' = "kf10"
    /\ UNCHANGED << error, calls, printed, date, pipelineNames, notPipeline >>

\* part_001:281-284
SetRecipient ==
    /\ pc = "kf10"
    /\ pipeline_arguments' = [ recipient |-> "World!" ]
    /\ pc' = "kf11"
    /\ UNCHANGED << error, calls, printed, date, files, MODEL_NAME,
                    template_path, job, hello_task, how_task, notPipeline >>

\* part_001:303-304
ViewPipelineYaml ==
    /\ pc = "kf11"
    /\ printed' =
          IF "pipeline.yaml" \in DOMAIN files
          THEN Append(printed, Shown("!cat pipeline.yaml", files["pipeline.yaml"]))
          ELSE printed
    /\ pc' = "kf12"
    /\ UNCHANGED << error, calls, date, files, pipelineNames, notPipeline >>

\* part_001:323-344: the job is made, submitted, and its state is read, in
\* one cell: a statement that raises ends the cell
SubmitHelloPipeline ==
    /\ pc = "kf12"
    /\ \E made \in PipelineJob("pipeline.yaml", "deep_learning_ai_pipeline",
                               pipeline_arguments, files) :
          IF made.raised # None
          THEN /\ error' = made.raised
               /\ UNCHANGED << job, calls, printed >>
          ELSE \E o \in submit(made.value) :
                 IF o.raised # None
                 THEN /\ job' = made.value
                      /\ calls' = Append(calls,
                            Call("submit", "pipeline.yaml", pipeline_arguments, o))
                      /\ error' = o.raised
                      /\ UNCHANGED printed
                 ELSE /\ job' = [ made.value EXCEPT !.submitted = TRUE ]
                      /\ \E st \in state(job') :
                            /\ calls' = calls \o
                                  << Call("submit", "pipeline.yaml", pipeline_arguments, o),
                                     Call("state", "pipeline.yaml", None, st) >>
                            /\ IF st.raised # None
                               THEN /\ error' = st.raised
                                    /\ UNCHANGED printed
                               ELSE /\ printed' = Append(printed, Shown("job.state", st.value))
                                    /\ UNCHANGED error
    /\ pc' = "done"
    /\ UNCHANGED << date, files, MODEL_NAME, pipeline_arguments, template_path,
                    hello_task, how_task, notPipeline >>

\* supervised-tuning-pipe.ipynb:36-39
SetDataUris ==
    /\ pc = "tp1"
    /\ pc' = "tp2"
    /\ UNCHANGED << error, calls, printed, date, files, pipelineNames, notPipeline >>

\* supervised-tuning-pipe.ipynb:59-66
VersionModelName ==
    /\ pc = "tp2"
    /\ \E now \in Clock : date' = strftime(now)
    /\ MODEL_NAME' = "deep-learning-ai-model-" \o date'
    /\ pc' = "tp3"
    /\ UNCHANGED << error, calls, printed, files, pipeline_arguments,
                    template_path, job, hello_task, how_task, notPipeline >>

\* supervised-tuning-pipe.ipynb:87-91
SetTrainingSteps ==
    /\ pc = "tp3"
    /\ pc' = "tp4"
    /\ UNCHANGED << error, calls, printed, date, files, pipelineNames, notPipeline >>

\* supervised-tuning-pipe.ipynb:110-117
AuthenticateTuning ==
    /\ pc = "tp4"
    /\ pc' = "tp5"
    /\ UNCHANGED << error, calls, printed, date, files, pipelineNames, notPipeline >>

\* supervised-tuning-pipe.ipynb:143-153
SetPipelineArguments ==
    /\ pc = "tp5"
    /\ pipeline_arguments' =
          [ model_display_name |-> MODEL_NAME,
            location |-> REGION,
            large_model_reference |-> "text-bison@001",
            project |-> PROJECT_ID,
            train_steps |-> TRAINING_STEPS,
            dataset_uri |-> TRAINING_DATA_URI,
            evaluation_interval |-> EVALUATION_INTERVAL,
            evaluation_data_uri |-> EVAUATION_DATA_URI ]
    /\ pc' = "tp6"
    /\ UNCHANGED << error, calls, printed, date, files, MODEL_NAME,
                    template_path, job, hello_task, how_task, notPipeline >>

\* supervised-tuning-pipe.ipynb:172-174
SetTemplatePath ==
    /\ pc = "tp6"
    /\ template_path' = TEMPLATE_URL
    /\ pc' = "tp7"
    /\ UNCHANGED << error, calls, printed, date, files, MODEL_NAME,
                    pipeline_arguments, job, hello_task, how_task, notPipeline >>

\* supervised-tuning-pipe.ipynb:199-216
SubmitTuningJob ==
    /\ pc = "tp7"
    /\ \E made \in PipelineJob(template_path, "deep_learning_ai_pipeline-" \o date,
                               pipeline_arguments, files) :
          IF made.raised # None
          THEN /\ calls' = Append(calls,
                     Call("load_template", template_path, None, made))
               /\ error' = made.raised
               /\ pc' = OnRaise("tp7")
               /\ UNCHANGED job
          ELSE \E o \in submit(made.value) :
                 /\ calls' = calls \o
                       << Call("load_template", template_path, None,
                               Returned(made.value.spec.pipelineInfo.name)),
                          Call("submit", template_path, pipeline_arguments, o) >>
                 /\ IF o.raised # None
                    THEN /\ job' = made.value
                         /\ error' = o.raised
                         /\ pc' = OnRaise("tp7")
                    ELSE /\ job' = [ made.value EXCEPT !.submitted = TRUE ]
                         /\ pc' = "tp8"
                         /\ UNCHANGED error
    /\ UNCHANGED << printed, date, files, MODEL_NAME, pipeline_arguments,
                    template_path, hello_task, how_task, notPipeline >>

\* supervised-tuning-pipe.ipynb:235-236
ReadJobState ==
    /\ pc = "tp8"
    /\ \E st \in state(job) :
          /\ calls' = Append(calls, Call("state", template_path, None, st))
          /\ IF st.raised # None
             THEN /\ error' = st.raised
                  /\ pc' = OnRaise("tp8")
                  /\ UNCHANGED printed
             ELSE /\ printed' = Append(printed, Shown("job.state", st.value))
                  /\ pc' = "done"
                  /\ UNCHANGED error
    /\ UNCHANGED << date, files, pipelineNames, notPipeline >>

PipelineNext ==
    \/ TitleCell
    \/ ImportKfp
    \/ DefineSayHello
    \/ CallSayHello
    \/ DefineHowAreYou
    \/ CallHowAreYou
    \/ DefineHelloPipeline
    \/ DefinePipelineWithError
    \/ CompilePipeline
    \/ SetRecipient
    \/ ViewPipelineYaml
    \/ SubmitHelloPipeline
    \/ SetDataUris
    \/ VersionModelName
    \/ SetTrainingSteps
    \/ AuthenticateTuning
    \/ SetPipelineArguments
    \/ SetTemplatePath
    \/ SubmitTuningJob
    \/ ReadJobState

PipelineSpec == PipelineInit /\ [][PipelineNext]_vars

\* C19 as stated: the spec a job is submitted with is one that compiling
\* the pipeline has produced in the run
C19_SubmittedSpecWasCompiled ==
    \A i \in 1..Len(calls) :
        calls[i].op = "submit"
            => /\ job.spec = compile(hello_pipeline)
               /\ calls[i].target \in DOMAIN files
               /\ files[calls[i].target] = job.spec

\* C19 amended: a job is submitted with its parameter values and with the
\* spec its template path names: for pipeline.yaml the spec that the
\* compile step of the run has written, for the tuning job the template
\* published at the URL, which no step of the program compiles; the state
\* of a job is read only after submit has been called on it
C19_SubmitThenState ==
    \A i \in 1..Len(calls) :
        /\ calls[i].op = "submit"
              => /\ job # NoJob
                 /\ job.template_path = calls[i].target
                 /\ pipeline_arguments # NoArguments
                 /\ calls[i].prompt = pipeline_arguments
                 /\ job.parameter_values = pipeline_arguments
                 /\ calls[i].target = "pipeline.yaml"
                       => /\ job.spec = compile(hello_pipeline)
                          /\ files["pipeline.yaml"] = job.spec
                 /\ calls[i].target # "pipeline.yaml"
                       => /\ calls[i].target = TEMPLATE_URL
                          /\ job.spec = PublishedTemplate
                          /\ \A f \in DOMAIN files : files[f] # job.spec
        /\ calls[i].op = "state"
              => /\ i > 1
                 /\ calls[i - 1].op = "submit"
                 /\ calls[i - 1].target = calls[i].target
                 /\ job.submitted

C19_Witness ==
    /\ pc = "done"
    /\ Len(calls) = 2
    /\ calls[1].op = "submit"
    /\ calls[1].target = "pipeline.yaml"
    /\ calls[1].prompt = [ recipient |-> "World!" ]
    /\ calls[2].op = "state"
    /\ printed[Len(printed)] = Shown("job.state", "PIPELINE_STATE_RUNNING")
    /\ job.spec = compile(hello_pipeline)
    /\ job.spec # StaleSpec

-----------------------------------------------------------------------------
(* Cells run again: the split on the rows the kernel holds, and the cells  *)
(* that make names from the time, at a later moment.                        *)

\* the runs of the tuning notebook that are followed
MaxRuns == 2

\* the moments of Clock in the order they pass
Moments ==
    << [ Y |-> "2024", m |-> "05", d |-> "17", H |-> "09", M |-> "05" ],
       [ Y |-> "2024", m |-> "05", d |-> "17", H |-> "09", M |-> "40" ],
       [ Y |-> "2024", m |-> "05", d |-> "17", H |-> "10", M |-> "05" ] >>

\* what datetime.datetime.now() can return in a run that starts after a
\* run whose date was d: a moment after one that gives d
Later(d) ==
    { Moments[j] : j \in { k \in 1..Len(Moments) :
                             \E i \in 1..(k - 1) : strftime(Moments[i]) = d } }

\* the data preparation notebook has run to its end
DataPrepDone == pc = "done" /\ tune_jsonl # None

\* the tuning notebook has run to its end
TuningDone == pc = "done" /\ job # NoJob /\ template_path = TEMPLATE_URL

\* a split that draws its shuffle afresh: the rows in the order they are in,
\* or in the order of random_state=42
SplitDataAgain_unseeded ==
    /\ pc \in {"dp10", "dp11"} \/ DataPrepDone
    /\ LET n == Len(stack_overflow_df)
       IN  \/ /\ train' = train_test_split(stack_overflow_df).value[1]
              /\ evaluation' = train_test_split(stack_overflow_df).value[2]
           \/ /\ train' = [ i \in 1..(n - n_test(n)) |-> stack_overflow_df[n_test(n) + i] ]
              /\ evaluation' = [ i \in 1..n_test(n) |-> stack_overflow_df[i] ]
    /\ UNCHANGED << pc, error, calls, printed, stack_overflow_df, date,
                    tune_jsonl, files, notDataPrep >>

\* data-prep.ipynb:282-289 run a second time in the kernel, on the rows
\* stack_overflow_df holds
SplitDataAgain ==
    /\ pc \in {"dp10", "dp11"} \/ DataPrepDone
    /\ LET o == train_test_split(stack_overflow_df)
       IN  /\ train' = o.value[1]
           /\ evaluation' = o.value[2]
    /\ UNCHANGED << pc, error, calls, printed, stack_overflow_df, date,
                    tune_jsonl, files, notDataPrep >>

\* data-prep.ipynb:310-311 run at a later moment, the file of the run
\* before on the disk; data-prep.ipynb:330-336 is the next cell
VersionDateAgain ==
    /\ DataPrepDone
    /\ \E now \in Later(date) : date' = strftime(now)
    /\ pc' = "dp11"
    /\ UNCHANGED << error, calls, printed, stack_overflow_df, train, evaluation,
                    tune_jsonl, files, notDataPrep >>

\* supervised-tuning-pipe.ipynb:59-66 run at a later moment, after the job of
\* the run before has been submitted
VersionModelNameAgain ==
    /\ TuningDone
    /\ Cardinality({ i \in 1..Len(calls) : calls[i].op = "submit" }) < MaxRuns
    /\ \E now \in Later(date) : date' = strftime(now)
    /\ MODEL_NAME' = "deep-learning-ai-model-" \o date'
    /\ pc' = "tp3"
    /\ UNCHANGED << error, calls, printed, files, pipeline_arguments,
                    template_path, job, hello_task, how_task, notPipeline >>

RerunInit == DataPrepInit \/ (PipelineInit /\ pc = "tp1" /\ files = <<>>)

RerunNext ==
    \/ Authenticate
    \/ InitSdk
    \/ InitBigQuery
    \/ QueryTableNames
    \/ InspectQuestions
    \/ LoadAllQuestions
    \/ JoinQuestionsAnswers
    \/ AddInstructions
    \/ SplitData
    \/ VersionDate
    \/ WriteTrainingFile
    \/ SplitDataAgain
    \/ VersionDateAgain
    \/ SetDataUris
    \/ VersionModelName
    \/ SetTrainingSteps
    \/ AuthenticateTuning
    \/ SetPipelineArguments
    \/ SetTemplatePath
    \/ SubmitTuningJob
    \/ ReadJobState
    \/ VersionModelNameAgain

RerunSpec == RerunInit /\ [][RerunNext]_vars

C22_NamesUniquePerRun ==
    [][/\ (pc = "dp11" /\ pc' = "done")
            => training_data_filename(date) \notin DOMAIN files
       /\ (pc = "done" /\ pc' = "tp3")
            => MODEL_NAME' # MODEL_NAME
       /\ (pc = "tp7" /\ job # NoJob /\ job' # NoJob /\ job.submitted)
            => job'.display_name # job.display_name]_vars

-----------------------------------------------------------------------------
(* The two notebooks one after the other in one working directory: the     *)
(* data preparation notebook to its end, then the tuning notebook in a     *)
(* kernel of its own.                                                      *)

\* the file a relative URI names in the working directory
Path(uri) ==
    IF Len(uri) >= 2 /\ SubSeq(uri, 1, 2) = "./"
    THEN SubSeq(uri, 3, Len(uri))
    ELSE uri

\* the tuning notebook is opened after the data preparation notebook has
\* run: a new kernel, no name bound, the files of the working directory
\* as they were left
OpenTuningNotebook ==
    /\ DataPrepDone
    /\ pc' = "tp1"
    /\ error' = None
    /\ calls' = <<>>
    /\ printed' = <<>>
    /\ stack_overflow_df' = <<>>
    /\ train' = <<>>
    /\ evaluation' = <<>>
    /\ date' = None
    /\ tune_jsonl' = None
    /\ UNCHANGED << files, servingNames, outstanding, pipelineNames, execution >>

WorkflowNext ==
    \/ Authenticate
    \/ InitSdk
    \/ InitBigQuery
    \/ QueryTableNames
    \/ InspectQuestions
    \/ LoadAllQuestions
    \/ JoinQuestionsAnswers
    \/ AddInstructions
    \/ SplitData
    \/ VersionDate
    \/ WriteTrainingFile
    \/ OpenTuningNotebook
    \/ SetDataUris
    \/ VersionModelName
    \/ SetTrainingSteps
    \/ AuthenticateTuning
    \/ SetPipelineArguments
    \/ SetTemplatePath
    \/ SubmitTuningJob
    \/ ReadJobState

WorkflowSpec == DataPrepInit /\ [][WorkflowNext]_vars

\* C23: the tuning job is submitted with a training URI and an evaluation
\* URI that name files the data preparation notebook has written
C23_UrisNameWrittenFiles ==
    \A i \in 1..Len(calls) :
        (calls[i].op = "submit" /\ calls[i].target = TEMPLATE_URL)
            => /\ Path(calls[i].prompt.dataset_uri) \in DOMAIN files
               /\ Path(calls[i].prompt.evaluation_data_uri) \in DOMAIN files

-----------------------------------------------------------------------------
(* The serving notebook: what is shown, and when *)

\* C24: a response, or the content of one, is printed only after the
\* blocked flag of a response has been read and printed
C24_CheckedBeforeShown ==
    \A i \in 1..Len(printed) :
        printed[i].name \in {"response", "output", "final_output"}
            => \E j \in 1..(i - 1) : printed[j].name = "blocked"

\* C29: once the prediction with instruction and question has returned,
\* the blocked flag and the safety attributes of step 10 and the citations
\* of step 11 are those of that prediction, final_response
C29_ReportsLatestResult ==
    LET latest == final_response.prediction_response[1][1]
    IN  /\ pc \in {"cell11", "done"}
            => /\ blocked = latest.safetyAttributes.blocked
               /\ safety_attributes = latest.safetyAttributes
        /\ pc = "done"
            => citation = latest.citationMetadata.citations

-----------------------------------------------------------------------------
(* The join query: what its rows are made of *)

\* stack_overflow_df holds the rows of the join query
JoinLoaded == pc \in {"dp8", "dp9", "dp10", "dp11", "done"}

\* the question and the answer a row is made of: the row has the title and
\* the body of the question and the body of the answer
MadeOf(row, q, a) ==
    /\ row.input_text = q.title \o q.body
    /\ row.output_text = a.body

C26_QuestionsPostedSince2020 ==
    JoinLoaded
        => \A i \in 1..Len(stack_overflow_df) :
              \A q \in QuestionPool, a \in posts_answers :
                 (/\ MadeOf(stack_overflow_df[i], q, a)
                  /\ q.accepted_answer_id = {a.id}
                  /\ REGEXP_CONTAINS(q.tags, "python")
                  /\ a.creation_date >= 20200101)
                    => q.creation_date >= 20200101

-----------------------------------------------------------------------------
(* The run of hello_pipeline in the pipeline service, after job.submit():  *)
(* the service runs the tasks of the compiled spec, each when the outputs  *)
(* it takes as inputs are there.                                           *)

\* part_001:110-113
say_hello(name) == "Hello, " \o name \o "!"

\* part_001:159-162
how_are_you(hello_text) == hello_text \o ". How are you?"

\* the component a task of the spec refers to, run on its arguments
Execute(component, arguments) ==
    CASE component = "say-hello" -> say_hello(arguments.name)
      [] component = "how-are-you" -> how_are_you(arguments.hello_text)

\* the recipients a job of hello_pipeline is submitted with
Recipients == {"World!", "Erwin"} \cup TextsUpTo(MaxTextLen)

\* the tasks of a compiled spec, by name
TaskNames(spec) ==
    { spec.root.dag[t].componentRef : t \in 1..Len(spec.root.dag) }

TaskOf(spec, name) ==
    spec.root.dag[CHOOSE t \in 1..Len(spec.root.dag) :
                     spec.root.dag[t].componentRef = name]

\* an input is a pipeline parameter or the output of a task
IsParameter(input) == "parameter" \in DOMAIN input

\* the tasks whose outputs a task takes as inputs
Upstream(task) ==
    { task.inputs[k].task :
        k \in { k \in DOMAIN task.inputs : ~IsParameter(task.inputs[k]) } }

\* a scheduler that starts a task whatever the state of the others
Ready_unordered(task, status) == TRUE

\* a task can start once every task it takes an output of has succeeded
Ready(task, status) ==
    \A u \in Upstream(task) : status[u] = "SUCCEEDED"

\* the value of an input when the task starts
Resolve(input, parameter_values, outputs) ==
    IF IsParameter(input)
    THEN parameter_values[input.parameter]
    ELSE outputs[input.task]

\* part_001:323-341 with any recipient: the job of hello_pipeline has been
\* submitted and the service has created its run, no task started
ExecutionInit ==
    /\ pc = "submitted"
    /\ error = None
    /\ calls = <<>>
    /\ printed = <<>>
    /\ outstanding = <<>>
    /\ ServingUnbound
    /\ stack_overflow_df = <<>>
    /\ train = <<>>
    /\ evaluation = <<>>
    /\ date = None
    /\ tune_jsonl = None
    /\ files = ("pipeline.yaml" :> compile(hello_pipeline))
    /\ MODEL_NAME = None
    /\ template_path = None
    /\ hello_task = NoTask
    /\ how_task = NoTask
    /\ \E r \in Recipients : pipeline_arguments = [ recipient |-> r ]
    /\ job = [ template_path |-> "pipeline.yaml",
               display_name |-> "deep_learning_ai_pipeline",
               parameter_values |-> pipeline_arguments,
               spec |-> files["pipeline.yaml"],
               submitted |-> TRUE ]
    /\ execution =
          [ status |-> [ t \in TaskNames(job.spec) |-> "PENDING" ],
            inputs |-> [ t \in TaskNames(job.spec) |-> NoArguments ],
            outputs |-> [ t \in TaskNames(job.spec) |-> None ],
            output |-> None,
            state |-> "PIPELINE_STATE_RUNNING" ]

\* the names no step of the service touches
notExecution ==
    << pc, error, calls, printed, outstanding, servingNames, dataPrepNames,
       pipelineNames >>

\* the service starts a task that is ready, on the values its inputs have
StartTask ==
    /\ execution.state = "PIPELINE_STATE_RUNNING"
    /\ \E t \in TaskNames(job.spec) :
          /\ execution.status[t] = "PENDING"
          /\ Ready(TaskOf(job.spec, t), execution.status)
          /\ execution' =
                [ execution EXCEPT
                    !.status[t] = "RUNNING",
                    !.inputs[t] =
                        [ k \in DOMAIN TaskOf(job.spec, t).inputs |->
                            Resolve(TaskOf(job.spec, t).inputs[k],
                                    job.parameter_values, execution.outputs) ] ]
    /\ UNCHANGED notExecution

\* a running task ends: its component returns, or its container fails
FinishTask ==
    /\ execution.state = "PIPELINE_STATE_RUNNING"
    /\ \E t \in TaskNames(job.spec) :
          /\ execution.status[t] = "RUNNING"
          /\ \/ execution' =
                   [ execution EXCEPT
                       !.status[t] = "SUCCEEDED",
                       !.outputs[t] = Execute(t, execution.inputs[t]) ]
             \/ execution' = [ execution EXCEPT !.status[t] = "FAILED" ]
    /\ UNCHANGED notExecution

\* part_001:216: the output of the pipeline is the output of how_task
CompletePipeline ==
    /\ execution.state = "PIPELINE_STATE_RUNNING"
    /\ execution.status[job.spec.root.outputDefinitions.task] = "SUCCEEDED"
    /\ execution' =
          [ execution EXCEPT
              !.output = execution.outputs[job.spec.root.outputDefinitions.task],
              !.state = "PIPELINE_STATE_SUCCEEDED" ]
    /\ UNCHANGED notExecution

\* a failed task fails the run
FailPipeline ==
    /\ execution.state = "PIPELINE_STATE_RUNNING"
    /\ \E t \in TaskNames(job.spec) : execution.status[t] = "FAILED"
    /\ execution' = [ execution EXCEPT !.state = "PIPELINE_STATE_FAILED" ]
    /\ UNCHANGED notExecution

ExecutionNext ==
    \/ StartTask
    \/ FinishTask
    \/ CompletePipeline
    \/ FailPipeline

ExecutionSpec == ExecutionInit /\ [][ExecutionNext]_vars

\* C27: in a run of hello_pipeline, how_are_you has started only if
\* say_hello has succeeded and takes the output of say_hello as hello_text;
\* for the recipient r the output of say_hello is "Hello, r!" and the
\* output of the pipeline is "Hello, r!" followed by ". How are you?"
C27_HowAreYouAfterSayHello ==
    LET r == job.parameter_values.recipient
    IN  /\ execution.status["how-are-you"] # "PENDING"
            => /\ execution.status["say-hello"] = "SUCCEEDED"
               /\ execution.inputs["how-are-you"].hello_text
                     = execution.outputs["say-hello"]
        /\ execution.status["say-hello"] = "SUCCEEDED"
            => execution.outputs["say-hello"] = "Hello, " \o r \o "!"
        /\ execution.status["how-are-you"] = "SUCCEEDED"
            => execution.outputs["how-are-you"]
                  = "Hello, " \o r \o "!" \o ". How are you?"
        /\ execution.state = "PIPELINE_STATE_SUCCEEDED"
            => execution.output = "Hello, " \o r \o "!" \o ". How are you?"

C27_Witness ==
    /\ execution.state = "PIPELINE_STATE_SUCCEEDED"
    /\ job.parameter_values.recipient = "World!"
    /\ execution.output = "Hello, World!!. How are you?"

-----------------------------------------------------------------------------
(* The cells of part_001 before the compile step and the submission *)

\* C28: while the cells of part_001 are run from the top, up to the cell
\* that submits the job, no cell has raised
C28_NoCellFailsBeforeSubmit ==
    pc \in { KubeflowCells[i] : i \in 1..12 } => error = None

=============================================================================
